---- MODULE Spec2Model ----
(***************************************************************************)
(* CryptShare-KEX: the three-message signed handshake, the session key     *)
(* store and the anti-replay validators of CryptShare-E2E.                 *)
(*                                                                         *)
(* Cryptography is symbolic: a key pair is a pair of tagged values, an     *)
(* ECDH secret is the unordered pair of the two exponents, HKDF, SHA-256   *)
(* and ECDSA are injective constructors over their inputs.                 *)
(***************************************************************************)
EXTENDS Integers, FiniteSets, Sequences, Bags, TLC

VARIABLES
    impl,                \* which handler set is mounted: Chat component or useKeyExchange hook
    clock,               \* Date.now()
    nextEph,             \* next fresh ephemeral exponent (generateKey)
    nextNonce,           \* next fresh random nonce (getRandomValues)
    sessionKeys,         \* sessionKeyStore: per client, Map peerId -> keyData
    pendingKeyExchanges, \* sessionKeyStore: per client, Map peerId -> kexState
    ephemeralKeys,       \* ephemeralKeysRef: per client, Map peerId -> key pair
    status,              \* encryptionStatus / keyExchangeStatus: per client, peerId -> string
    net,                 \* handshake messages in flight (relayed by the server)
    dups,                \* duplications performed by the transport
    tampers,             \* modifications performed by the on-path adversary
    acceptedInits,       \* history: <<responder, nonce>> of every KEX_INIT accepted
    outcome,             \* history: what the last handler call did
    usedNonces,          \* server middleware: Set of nonces seen
    sequenceNumbers,     \* server middleware: Map conversationId -> last sequence
    nonceTimers,         \* server: pending setTimeout(() => usedNonces.delete(nonce))
    clientUsedNonces,    \* client utils, per client: Set of nonces seen
    sequences,           \* client utils, per client: conversationId -> {sent, received}
    clientNonceTimers,   \* client utils, per client: pending nonce clean-ups
    demoServer,          \* the demo's ReplayProtectionServer instance
    conversationKeysRef, \* Chat component, per client: Map peerId -> conversation key
    conversationKeyCache,\* keys module, per client: Map cacheKey -> conversation key
    toServer,            \* 'message' events emitted towards the server
    toClient,            \* 'message' events the server relayed, in flight (a bag)
    surfaced,            \* per client: what the message callback received (a bag)
    messageErrors,       \* 'message_error' events sent back, per sender (a bag)
    stored,              \* Message documents created by the server
    sends,               \* messages sent by the clients so far
    serverTasks,         \* server: runs of the 'message' handler, by stage (a bag)
    verdict              \* history: the last verdict of a replay validator

kexVars == <<impl, clock, nextEph, nextNonce, sessionKeys, pendingKeyExchanges,
             ephemeralKeys, status, net, dups, tampers, acceptedInits, outcome>>

replayVars == <<usedNonces, sequenceNumbers, nonceTimers, clientUsedNonces, sequences,
                clientNonceTimers, demoServer, conversationKeysRef,
                conversationKeyCache, toServer, toClient, surfaced, messageErrors,
                stored, sends, serverTasks, verdict>>

----------------------------------------------------------------------------
(* Bounds of the model *)

MaxEph == 4
MaxDup == 1
MaxTamper == 1
ClockStep == 20000
Epoch == 1000000
MaxTicks == 2
MaxElapse == 4
MaxSend == 2
MaxAdvance == 1
MaxTestNonce == 1
MaxTestSeq == 1
MaxEmit == 2

(* Program constants *)

KEX_TIMESTAMP_WINDOW_MS == 30000

PROTOCOL_VERSION == "CryptShare-KEX-v1"

----------------------------------------------------------------------------
(* Participants *)

Users == {"A", "B"}
Mallory == "M"
Ids == Users \cup {Mallory}
Impls == {"chat", "hook"}

Undefined == [undefined |-> TRUE]

(* Long-term identity keys and the directory (getUser / getUserPublicKeys) *)
SigningPrivateKey(u) == <<"sigpriv", u>>
SigningPublicKey(u) == <<"sigpub", u>>
(* exponents of long-term keys are negative, those of ephemeral keys are not *)
LongTermExponent(u) == CASE u = "A" -> -1 [] u = "B" -> -2 [] OTHER -> -3

KeyExchangeKeyPair(u) ==
    [publicKey |-> <<"pub", LongTermExponent(u)>>,
     privateKey |-> <<"priv", LongTermExponent(u)>>]
getUser(u) == [signing |-> SigningPublicKey(u),
               keyExchange |-> KeyExchangeKeyPair(u).publicKey]

(* a key pair generated once and kept for every exchange *)
CachedEphemeralKeyPair(e) == [publicKey |-> <<"pub", 1>>, privateKey |-> <<"priv", 1>>]

(* Ephemeral ECDH key pairs *)
generateEphemeralKeyPair(e) == [publicKey |-> <<"pub", e>>, privateKey |-> <<"priv", e>>]
MalloryEphemeral == generateEphemeralKeyPair(0)

computeSharedSecret(myPrivateKey, theirPublicKey) == {myPrivateKey[2], theirPublicKey[2]}

deriveSessionKey(sharedSecret, nonce1, nonce2, senderId, receiverId) ==
    [secret |-> sharedSecret,
     salt |-> <<nonce1, nonce2, PROTOCOL_VERSION>>,
     info |-> <<"CryptShare-Session", senderId, receiverId>>]

signMessage(signingPrivateKey, messageData) ==
    [signer |-> signingPrivateKey[2], data |-> messageData]

(* a verification against whatever key the signature itself names *)
SelfCertifiedVerifySignature(signingPublicKey, messageData, signature) ==
    signature.data = messageData

BrokenVerifySignature(signingPublicKey, messageData, signature) ==
    signature.signer = signingPublicKey[2]

verifySignature(signingPublicKey, messageData, signature) ==
    /\ signature.signer = signingPublicKey[2]
    /\ signature.data = messageData

createConfirmationHash(sessionKey, nonce1, nonce2, senderId, receiverId) ==
    <<sessionKey, "CONFIRM", nonce1, nonce2, senderId, receiverId>>

PresentVerifyConfirmationHash(sessionKey, nonce1, nonce2, senderId, receiverId, receivedHash) ==
    receivedHash # Undefined

SwappedVerifyConfirmationHash(sessionKey, nonce1, nonce2, senderId, receiverId, receivedHash) ==
    createConfirmationHash(sessionKey, nonce2, nonce1, senderId, receiverId) = receivedHash

verifyConfirmationHash(sessionKey, nonce1, nonce2, senderId, receiverId, receivedHash) ==
    createConfirmationHash(sessionKey, nonce1, nonce2, senderId, receiverId) = receivedHash

Abs(x) == IF x < 0 THEN -x ELSE x

(* a window that leaves its boundary out *)
StrictTimestampValid(timestamp) == Abs(clock - timestamp) < KEX_TIMESTAMP_WINDOW_MS

isTimestampValid(timestamp) == Abs(clock - timestamp) <= KEX_TIMESTAMP_WINDOW_MS

(* isTimestampValid(msg.timestamp) for any message: when the property is
   missing, or holds text that is no numeral (modelled as the property
   timestampText), now - timestamp is NaN and NaN <= w is false *)
TimestampValid(msg) == ("timestamp" \in DOMAIN msg) /\ isTimestampValid(msg.timestamp)

(* const { signature, ...payloadToVerify } = msg *)
payloadToVerify(msg) == [f \in (DOMAIN msg) \ {"signature"} |-> msg[f]]

----------------------------------------------------------------------------
(* sessionKeyStore: operations on one client's maps *)

storeSessionKey(keys, peerId, sessionKey, metadata) ==
    [keys EXCEPT ![peerId] = metadata @@ [key |-> sessionKey, createdAt |-> clock]]

getSessionKey(keys, peerId) ==
    IF keys[peerId] # Undefined THEN keys[peerId].key ELSE Undefined

(* a store that reports no key *)
Forgetful_hasSessionKey(keys, peerId) == FALSE

hasSessionKey(keys, peerId) == keys[peerId] # Undefined

storePendingKex(pending, peerId, kexState) ==
    [pending EXCEPT ![peerId] = kexState @@ [createdAt |-> clock]]

getPendingKex(pending, peerId) == pending[peerId]

KeptPendingKex(pending, peerId) == pending

(* a removal that empties the whole map *)
Sweeping_removePendingKex(pending, peerId) == [p \in DOMAIN pending |-> Undefined]

removePendingKex(pending, peerId) == [pending EXCEPT ![peerId] = Undefined]

expireTime == 60000

(* a sweep that also removes the entry aged exactly expireTime *)
Eager_clearExpiredPendingKex(pending) ==
    [peerId \in DOMAIN pending |->
        IF pending[peerId] # Undefined /\ clock - pending[peerId].createdAt >= expireTime
        THEN Undefined
        ELSE pending[peerId]]

(* Removes the pending exchanges older than 60 seconds. No component, hook or
   timer of the client calls it. *)
clearExpiredPendingKex(pending) ==
    LET now == clock
    IN  [peerId \in DOMAIN pending |->
            IF pending[peerId] # Undefined /\ now - pending[peerId].createdAt > expireTime
            THEN Undefined
            ELSE pending[peerId]]

clearAllSessionKeys(keys) == [peerId \in DOMAIN keys |-> Undefined]

----------------------------------------------------------------------------
(* keyExchange: message builders and processors *)

createKexInit(ephemeralKeyPair, signingPrivateKey, senderId, receiverId, nonce) ==
    LET payload == [type |-> "KEX_INIT",
                    version |-> PROTOCOL_VERSION,
                    ephemeralPublicKey |-> ephemeralKeyPair.publicKey,
                    nonce |-> nonce,
                    timestamp |-> clock,
                    senderId |-> senderId,
                    receiverId |-> receiverId]
    IN  payload @@ [signature |-> signMessage(signingPrivateKey, payload)]

processKexInitAndCreateResponse(kexInit, senderPublicSigningKey, myEphemeralKeyPair, mySigningPrivateKey, myId, myNonce) ==
    IF ~TimestampValid(kexInit)
    THEN [err |-> "timestamp"]
    ELSE IF ~verifySignature(senderPublicSigningKey, payloadToVerify(kexInit),
                             kexInit.signature)
    THEN [err |-> "signature"]
    ELSE
      LET sharedSecret == computeSharedSecret(myEphemeralKeyPair.privateKey,
                                              kexInit.ephemeralPublicKey)
          responsePayload == [type |-> "KEX_RESPONSE",
                              version |-> PROTOCOL_VERSION,
                              ephemeralPublicKey |-> myEphemeralKeyPair.publicKey,
                              nonce |-> myNonce,
                              timestamp |-> clock,
                              senderId |-> myId,
                              receiverId |-> kexInit.senderId,
                              initiatorNonce |-> kexInit.nonce]
          sessionKey == deriveSessionKey(sharedSecret, kexInit.nonce, myNonce,
                                         kexInit.senderId, myId)
      IN  [err |-> "none",
           response |-> responsePayload @@
                 [signature |-> signMessage(mySigningPrivateKey, responsePayload)],
           sessionKey |-> sessionKey,
           initiatorNonce |-> kexInit.nonce,
           responderNonce |-> myNonce]

processKexResponseAndCreateConfirm(kexResponse, responderPublicSigningKey, myEphemeralPrivateKey, mySigningPrivateKey, myNonce, myId) ==
    IF ~TimestampValid(kexResponse)
    THEN [err |-> "timestamp"]
    ELSE IF ~verifySignature(responderPublicSigningKey, payloadToVerify(kexResponse),
                             kexResponse.signature)
    THEN [err |-> "signature"]
    ELSE
      LET sharedSecret == computeSharedSecret(myEphemeralPrivateKey,
                                              kexResponse.ephemeralPublicKey)
          sessionKey == deriveSessionKey(sharedSecret, myNonce, kexResponse.nonce,
                                         myId, kexResponse.senderId)
          confirmationHash == createConfirmationHash(sessionKey, myNonce,
                                         kexResponse.nonce, myId, kexResponse.senderId)
          confirmPayload == [type |-> "KEX_CONFIRM",
                             version |-> PROTOCOL_VERSION,
                             confirmationHash |-> confirmationHash,
                             timestamp |-> clock,
                             senderId |-> myId,
                             receiverId |-> kexResponse.senderId]
      IN  [err |-> "none",
           confirm |-> confirmPayload @@
                 [signature |-> signMessage(mySigningPrivateKey, confirmPayload)],
           sessionKey |-> sessionKey,
           initiatorNonce |-> myNonce,
           responderNonce |-> kexResponse.nonce]

(* exportKey("raw", undefined) throws a TypeError when the caller's pending entry
   holds no sessionKey (an initiator's entry) *)
processKexConfirm(kexConfirm, senderPublicSigningKey, sessionKey, initiatorNonce, responderNonce, initiatorId, responderId) ==
    IF ~TimestampValid(kexConfirm)
    THEN "timestamp"
    ELSE IF ~verifySignature(senderPublicSigningKey, payloadToVerify(kexConfirm),
                             kexConfirm.signature)
    THEN "signature"
    ELSE IF sessionKey = Undefined
    THEN "type"
    ELSE IF ~verifyConfirmationHash(sessionKey, initiatorNonce, responderNonce,
                                    initiatorId, responderId,
                                    kexConfirm.confirmationHash)
    THEN "hash"
    ELSE "none"

----------------------------------------------------------------------------
(* Handlers.  Every handler records what it did in outcome. *)

(* obj.name of JavaScript: undefined when the property is missing *)
Prop(obj, name) == IF name \in DOMAIN obj THEN obj[name] ELSE Undefined

Outcome(op, user, peer, err, msg, sent, replay) ==
    [op |-> op, user |-> user, peer |-> peer, err |-> err, msg |-> msg,
     sent |-> sent, replay |-> replay]

Chat_initiateKeyExchange(u, peerId, peerPublicKeys) ==
    IF hasSessionKey(sessionKeys[u], peerId)
    THEN /\ status' = [status EXCEPT ![u][peerId] = "complete"]
         /\ outcome' = Outcome("initiate", u, peerId, "none", Undefined, Undefined, FALSE)
         /\ UNCHANGED <<nextEph, nextNonce, sessionKeys, pendingKeyExchanges,
                        ephemeralKeys, net, acceptedInits>>
    ELSE LET ephemeralKeyPair == generateEphemeralKeyPair(nextEph)
             kexInit == createKexInit(ephemeralKeyPair, SigningPrivateKey(u), u,
                                      peerId, nextNonce)
         IN  /\ nextEph <= MaxEph
             /\ nextEph' = nextEph + 1
             /\ nextNonce' = nextNonce + 1
             /\ status' = [status EXCEPT ![u][peerId] = "exchanging"]
             /\ ephemeralKeys' = [ephemeralKeys EXCEPT ![u][peerId] = ephemeralKeyPair]
             /\ pendingKeyExchanges' = [pendingKeyExchanges EXCEPT ![u] =
                    storePendingKex(@, peerId,
                        [ephemeralKeyPair |-> ephemeralKeyPair,
                         myNonce |-> kexInit.nonce,
                         peerPublicKeys |-> peerPublicKeys,
                         role |-> "initiator"])]
             /\ net' = net \cup {kexInit}
             /\ outcome' = Outcome("initiate", u, peerId, "none", Undefined, kexInit, FALSE)
             /\ UNCHANGED <<sessionKeys, acceptedInits>>

Hook_initiateKeyExchange(u, peerId, peerPublicKeys) ==
    IF hasSessionKey(sessionKeys[u], peerId)
    THEN /\ status' = [status EXCEPT ![u][peerId] = "complete"]
         /\ outcome' = Outcome("initiate", u, peerId, "none", Undefined, Undefined, FALSE)
         /\ UNCHANGED <<nextEph, nextNonce, sessionKeys, pendingKeyExchanges,
                        ephemeralKeys, net, acceptedInits>>
    ELSE LET ephemeralKeyPair == generateEphemeralKeyPair(nextEph)
             kexInit == createKexInit(ephemeralKeyPair, SigningPrivateKey(u), u,
                                      peerId, nextNonce)
         IN  /\ nextEph <= MaxEph
             /\ nextEph' = nextEph + 1
             /\ nextNonce' = nextNonce + 1
             /\ status' = [status EXCEPT ![u][peerId] = "pending"]
             /\ ephemeralKeys' = [ephemeralKeys EXCEPT ![u][peerId] = ephemeralKeyPair]
             /\ pendingKeyExchanges' = [pendingKeyExchanges EXCEPT ![u] =
                    storePendingKex(@, peerId,
                        [ephemeralKeyPair |-> ephemeralKeyPair,
                         myNonce |-> kexInit.nonce,
                         peerPublicKeys |-> peerPublicKeys])]
             /\ net' = net \cup {kexInit}
             /\ outcome' = Outcome("initiate", u, peerId, "none", Undefined, kexInit, FALSE)
             /\ UNCHANGED <<sessionKeys, acceptedInits>>

Chat_handleKexInit(u, kexInit, rest) ==
    LET peerId == kexInit.senderId
        peerPublicKeys == getUser(peerId)
        myEphemeralKeyPair == generateEphemeralKeyPair(nextEph)
        result == processKexInitAndCreateResponse(kexInit, peerPublicKeys.signing,
                      myEphemeralKeyPair, SigningPrivateKey(u), u, nextNonce)
        replay == <<u, kexInit.nonce>> \in acceptedInits
    IN  /\ nextEph <= MaxEph
        /\ nextEph' = nextEph + 1
        /\ ephemeralKeys' = [ephemeralKeys EXCEPT ![u][peerId] = myEphemeralKeyPair]
        /\ IF result.err = "none"
           THEN /\ status' = [status EXCEPT ![u][peerId] = "exchanging"]
                /\ pendingKeyExchanges' = [pendingKeyExchanges EXCEPT ![u] =
                       storePendingKex(@, peerId,
                           [sessionKey |-> result.sessionKey,
                            initiatorNonce |-> result.initiatorNonce,
                            responderNonce |-> result.responderNonce,
                            peerPublicKeys |-> peerPublicKeys,
                            role |-> "responder"])]
                /\ net' = rest \cup {result.response}
                /\ nextNonce' = nextNonce + 1
                /\ acceptedInits' = acceptedInits \cup {<<u, kexInit.nonce>>}
                /\ outcome' = Outcome("kex_init", u, peerId, "none", kexInit,
                                      result.response, replay)
           ELSE /\ status' = [status EXCEPT ![u][peerId] = "error"]
                /\ net' = rest
                /\ outcome' = Outcome("kex_init", u, peerId, result.err, kexInit,
                                      Undefined, replay)
                /\ UNCHANGED <<pendingKeyExchanges, nextNonce, acceptedInits>>
        /\ UNCHANGED sessionKeys

Hook_handleKexInit(u, kexInit, rest) ==
    LET peerId == kexInit.senderId
        peerPublicKeys == getUser(peerId)
        myEphemeralKeyPair == generateEphemeralKeyPair(nextEph)
        result == processKexInitAndCreateResponse(kexInit, peerPublicKeys.signing,
                      myEphemeralKeyPair, SigningPrivateKey(u), u, nextNonce)
        replay == <<u, kexInit.nonce>> \in acceptedInits
    IN  /\ nextEph <= MaxEph
        /\ nextEph' = nextEph + 1
        /\ ephemeralKeys' = [ephemeralKeys EXCEPT ![u][peerId] = myEphemeralKeyPair]
        /\ IF result.err = "none"
           THEN /\ status' = [status EXCEPT ![u][peerId] = "pending"]
                /\ sessionKeys' = [sessionKeys EXCEPT ![u] =
                       storeSessionKey(@, peerId, result.sessionKey,
                           [initiatorNonce |-> result.initiatorNonce,
                            responderNonce |-> result.responderNonce,
                            role |-> "responder"])]
                /\ pendingKeyExchanges' = [pendingKeyExchanges EXCEPT ![u] =
                       storePendingKex(@, peerId,
                           [sessionKey |-> result.sessionKey,
                            initiatorNonce |-> result.initiatorNonce,
                            responderNonce |-> result.responderNonce,
                            peerPublicKeys |-> peerPublicKeys])]
                /\ net' = rest \cup {result.response}
                /\ nextNonce' = nextNonce + 1
                /\ acceptedInits' = acceptedInits \cup {<<u, kexInit.nonce>>}
                /\ outcome' = Outcome("kex_init", u, peerId, "none", kexInit,
                                      result.response, replay)
           ELSE /\ status' = [status EXCEPT ![u][peerId] = "error"]
                /\ net' = rest
                /\ outcome' = Outcome("kex_init", u, peerId, result.err, kexInit,
                                      Undefined, replay)
                /\ UNCHANGED <<sessionKeys, pendingKeyExchanges, nextNonce, acceptedInits>>

Chat_handleKexResponse(u, kexResponse, rest) ==
    LET peerId == kexResponse.senderId
        pendingState == getPendingKex(pendingKeyExchanges[u], peerId)
        ephemeralKeyPair == Prop(pendingState, "ephemeralKeyPair")
        result == processKexResponseAndCreateConfirm(kexResponse,
                      pendingState.peerPublicKeys.signing,
                      ephemeralKeyPair.privateKey, SigningPrivateKey(u),
                      pendingState.myNonce, u)
        err == IF pendingState = Undefined THEN "nopending"
               ELSE IF ephemeralKeyPair = Undefined THEN "type"
               ELSE result.err
    IN  /\ IF err = "none"
           THEN /\ sessionKeys' = [sessionKeys EXCEPT ![u] =
                       storeSessionKey(@, peerId, result.sessionKey,
                           [initiatorNonce |-> result.initiatorNonce,
                            responderNonce |-> result.responderNonce,
                            role |-> "initiator"])]
                /\ net' = rest \cup {result.confirm}
                /\ pendingKeyExchanges' = [pendingKeyExchanges EXCEPT ![u] =
                       removePendingKex(@, peerId)]
                /\ ephemeralKeys' = [ephemeralKeys EXCEPT ![u][peerId] = Undefined]
                /\ status' = [status EXCEPT ![u][peerId] = "complete"]
                /\ outcome' = Outcome("kex_response", u, peerId, "none", kexResponse,
                                      result.confirm, FALSE)
           ELSE /\ status' = [status EXCEPT ![u][peerId] = "error"]
                /\ net' = rest
                /\ outcome' = Outcome("kex_response", u, peerId, err, kexResponse,
                                      Undefined, FALSE)
                /\ UNCHANGED <<sessionKeys, pendingKeyExchanges, ephemeralKeys>>
        /\ UNCHANGED <<nextEph, nextNonce, acceptedInits>>

Hook_handleKexResponse(u, kexResponse, rest) ==
    LET peerId == kexResponse.senderId
        pendingState == getPendingKex(pendingKeyExchanges[u], peerId)
        ephemeralKeyPair == Prop(pendingState, "ephemeralKeyPair")
        result == processKexResponseAndCreateConfirm(kexResponse,
                      pendingState.peerPublicKeys.signing,
                      ephemeralKeyPair.privateKey, SigningPrivateKey(u),
                      pendingState.myNonce, u)
        err == IF pendingState = Undefined THEN "nopending"
               ELSE IF ephemeralKeyPair = Undefined THEN "type"
               ELSE result.err
    IN  /\ IF err = "none"
           THEN /\ sessionKeys' = [sessionKeys EXCEPT ![u] =
                       storeSessionKey(@, peerId, result.sessionKey,
                           [initiatorNonce |-> result.initiatorNonce,
                            responderNonce |-> result.responderNonce,
                            role |-> "initiator"])]
                /\ net' = rest \cup {result.confirm}
                /\ pendingKeyExchanges' = [pendingKeyExchanges EXCEPT ![u] =
                       removePendingKex(@, peerId)]
                /\ ephemeralKeys' = [ephemeralKeys EXCEPT ![u][peerId] = Undefined]
                /\ status' = [status EXCEPT ![u][peerId] = "complete"]
                /\ outcome' = Outcome("kex_response", u, peerId, "none", kexResponse,
                                      result.confirm, FALSE)
           ELSE /\ status' = [status EXCEPT ![u][peerId] = "error"]
                /\ net' = rest
                /\ outcome' = Outcome("kex_response", u, peerId, err, kexResponse,
                                      Undefined, FALSE)
                /\ UNCHANGED <<sessionKeys, pendingKeyExchanges, ephemeralKeys>>
        /\ UNCHANGED <<nextEph, nextNonce, acceptedInits>>

Chat_handleKexConfirm(u, kexConfirm, rest) ==
    LET peerId == kexConfirm.senderId
        pendingState == getPendingKex(pendingKeyExchanges[u], peerId)
        err == IF pendingState = Undefined THEN "nopending"
               ELSE processKexConfirm(kexConfirm, pendingState.peerPublicKeys.signing,
                        Prop(pendingState, "sessionKey"),
                        Prop(pendingState, "initiatorNonce"),
                        Prop(pendingState, "responderNonce"), peerId, u)
    IN  /\ IF err = "none"
           THEN /\ sessionKeys' = [sessionKeys EXCEPT ![u] =
                       storeSessionKey(@, peerId, pendingState.sessionKey,
                           [initiatorNonce |-> pendingState.initiatorNonce,
                            responderNonce |-> pendingState.responderNonce,
                            role |-> "responder"])]
                /\ pendingKeyExchanges' = [pendingKeyExchanges EXCEPT ![u] =
                       removePendingKex(@, peerId)]
                /\ ephemeralKeys' = [ephemeralKeys EXCEPT ![u][peerId] = Undefined]
                /\ status' = [status EXCEPT ![u][peerId] = "complete"]
           ELSE /\ status' = [status EXCEPT ![u][peerId] = "error"]
                /\ UNCHANGED <<sessionKeys, pendingKeyExchanges, ephemeralKeys>>
        /\ net' = rest
        /\ outcome' = Outcome("kex_confirm", u, peerId, err, kexConfirm, Undefined, FALSE)
        /\ UNCHANGED <<nextEph, nextNonce, acceptedInits>>

Hook_handleKexConfirm(u, kexConfirm, rest) ==
    LET peerId == kexConfirm.senderId
        pendingState == getPendingKex(pendingKeyExchanges[u], peerId)
        err == IF pendingState = Undefined THEN "nopending"
               ELSE processKexConfirm(kexConfirm, pendingState.peerPublicKeys.signing,
                        Prop(pendingState, "sessionKey"),
                        Prop(pendingState, "initiatorNonce"),
                        Prop(pendingState, "responderNonce"), peerId, u)
    IN  /\ IF err = "none"
           THEN /\ UNCHANGED sessionKeys
                /\ pendingKeyExchanges' = [pendingKeyExchanges EXCEPT ![u] =
                       removePendingKex(@, peerId)]
                /\ ephemeralKeys' = [ephemeralKeys EXCEPT ![u][peerId] = Undefined]
                /\ status' = [status EXCEPT ![u][peerId] = "complete"]
           ELSE /\ status' = [status EXCEPT ![u][peerId] = "error"]
                /\ UNCHANGED <<sessionKeys, pendingKeyExchanges, ephemeralKeys>>
        /\ net' = rest
        /\ outcome' = Outcome("kex_confirm", u, peerId, err, kexConfirm, Undefined, FALSE)
        /\ UNCHANGED <<nextEph, nextNonce, acceptedInits>>

----------------------------------------------------------------------------
(* Transport and environment *)

(* What the transport hands on after a delivery: the message is consumed, or
   kept in flight when the transport duplicates it. *)
Remaining(m, keep) == IF keep THEN net ELSE net \ {m}

Deliverable(m, type, keep) ==
    /\ m.type = type
    /\ m.receiverId \in Users
    /\ keep => dups < MaxDup
    /\ dups' = IF keep THEN dups + 1 ELSE dups

(* the user picks a peer: handleSelectUser -> initiateKeyExchange *)
Initiate ==
    /\ \E u \in Users : \E peerId \in Users \ {u} :
          IF impl = "chat"
          THEN Chat_initiateKeyExchange(u, peerId, getUser(peerId))
          ELSE Hook_initiateKeyExchange(u, peerId, getUser(peerId))
    /\ UNCHANGED <<impl, clock, dups, tampers>>
    /\ UNCHANGED replayVars

(* socket.on('kex_init'): io.to(data.receiverId).emit('kex_init', data) *)
KexInitVia(keeps) ==
    /\ \E m \in net : \E keep \in keeps :
          /\ Deliverable(m, "KEX_INIT", keep)
          /\ IF impl = "chat"
             THEN Chat_handleKexInit(m.receiverId, m, Remaining(m, keep))
             ELSE Hook_handleKexInit(m.receiverId, m, Remaining(m, keep))
    /\ UNCHANGED <<impl, clock, tampers>>
    /\ UNCHANGED replayVars

KexResponseVia(keeps) ==
    /\ \E m \in net : \E keep \in keeps :
          /\ Deliverable(m, "KEX_RESPONSE", keep)
          /\ IF impl = "chat"
             THEN Chat_handleKexResponse(m.receiverId, m, Remaining(m, keep))
             ELSE Hook_handleKexResponse(m.receiverId, m, Remaining(m, keep))
    /\ UNCHANGED <<impl, clock, tampers>>
    /\ UNCHANGED replayVars

KexConfirmVia(keeps) ==
    /\ \E m \in net : \E keep \in keeps :
          /\ Deliverable(m, "KEX_CONFIRM", keep)
          /\ IF impl = "chat"
             THEN Chat_handleKexConfirm(m.receiverId, m, Remaining(m, keep))
             ELSE Hook_handleKexConfirm(m.receiverId, m, Remaining(m, keep))
    /\ UNCHANGED <<impl, clock, tampers>>
    /\ UNCHANGED replayVars

(* The on-path adversary captures a message in flight, replaces one signed field
   and forwards the result with the original signature, in place of the original
   or next to it. *)
Substitutes(field) ==
    CASE field = "ephemeralPublicKey" -> {MalloryEphemeral.publicKey}
      [] field = "nonce" -> {0}
      [] field = "initiatorNonce" -> {0}
      [] field = "timestamp" -> {clock}
      [] field = "senderId" -> Ids
      [] field = "receiverId" -> Users
      [] field = "confirmationHash" -> {<<"forged">>}
      [] field = "version" -> {"forged"}
      [] OTHER -> {}

IsTampered(m) == m.signature.data # payloadToVerify(m)

Tamper ==
    /\ tampers < MaxTamper
    /\ \E m \in net : \E field \in DOMAIN m : \E v \in Substitutes(field) :
       \E forwardOriginal \in BOOLEAN :
          /\ ~IsTampered(m)
          /\ v # m[field]
          /\ net' = (IF forwardOriginal THEN net ELSE net \ {m})
                       \cup {[m EXCEPT ![field] = v]}
    /\ tampers' = tampers + 1
    /\ outcome' = Outcome("tamper", Mallory, Mallory, "none", Undefined, Undefined, FALSE)
    /\ UNCHANGED <<impl, clock, nextEph, nextNonce, sessionKeys, pendingKeyExchanges,
                   ephemeralKeys, status, dups, acceptedInits>>
    /\ UNCHANGED replayVars

(* The adversary signs a message in flight with its own signing key, the
   claimed senderId left as it is, and forwards it in place of the original or
   next to it. *)
Forge ==
    /\ tampers < MaxTamper
    /\ \E m \in net : \E forwardOriginal \in BOOLEAN :
          /\ ~IsTampered(m)
          /\ m.signature.signer # SigningPrivateKey(Mallory)[2]
          /\ net' = (IF forwardOriginal THEN net ELSE net \ {m})
                       \cup {[m EXCEPT !.signature =
                                 signMessage(SigningPrivateKey(Mallory), payloadToVerify(m))]}
    /\ tampers' = tampers + 1
    /\ outcome' = Outcome("forge", Mallory, Mallory, "none", Undefined, Undefined, FALSE)
    /\ UNCHANGED <<impl, clock, nextEph, nextNonce, sessionKeys, pendingKeyExchanges,
                   ephemeralKeys, status, dups, acceptedInits>>
    /\ UNCHANGED replayVars

(* A user picks the third registered user as peer: handleSelectUser ->
   initiateKeyExchange *)
InitiateThird ==
    /\ \E u \in Users :
          IF impl = "chat"
          THEN Chat_initiateKeyExchange(u, Mallory, getUser(Mallory))
          ELSE Hook_initiateKeyExchange(u, Mallory, getUser(Mallory))
    /\ UNCHANGED <<impl, clock, dups, tampers>>
    /\ UNCHANGED replayVars

(* onKexInit: the listener hands every 'kex_init' event that reaches the socket
   to handleKexInit. Here the event reaches the socket of a user other than the
   signed receiverId (an untrusted relay, or a socket that joined another
   user's room: 'join' takes any userId). *)
Misroute ==
    /\ tampers < MaxTamper
    /\ \E m \in net : \E u \in Users \ {m.senderId, m.receiverId} :
          /\ m.type = "KEX_INIT"
          /\ IF impl = "chat"
             THEN Chat_handleKexInit(u, m, net \ {m})
             ELSE Hook_handleKexInit(u, m, net \ {m})
    /\ tampers' = tampers + 1
    /\ UNCHANGED <<impl, clock, dups>>
    /\ UNCHANGED replayVars

(* The sender's clock differs from the receiver's, or the sender leaves the
   timestamp out or writes text into it: a message in flight carries another
   timestamp under its sender's signature. Without the signature renewed, the
   change was made on the way. *)
Restamped(m) ==
    {[m EXCEPT !.timestamp = t] :
        t \in {clock - KEX_TIMESTAMP_WINDOW_MS - 1, clock - KEX_TIMESTAMP_WINDOW_MS,
               clock + KEX_TIMESTAMP_WINDOW_MS, clock + KEX_TIMESTAMP_WINDOW_MS + 1}}
      \cup {[f \in DOMAIN m \ {"timestamp"} |-> m[f]]}
      \cup {[f \in DOMAIN m \ {"timestamp"} |-> m[f]] @@ [timestampText |-> "soon"]}

Restamp ==
    /\ tampers < MaxTamper
    /\ \E m \in net : \E stamped \in Restamped(m) : \E signed \in BOOLEAN :
          /\ ~IsTampered(m)
          /\ net' = (net \ {m}) \cup
                {IF signed
                 THEN [stamped EXCEPT !.signature =
                          signMessage(SigningPrivateKey(m.senderId),
                                      payloadToVerify(stamped))]
                 ELSE stamped}
    /\ tampers' = tampers + 1
    /\ outcome' = Outcome("restamp", Mallory, Mallory, "none", Undefined, Undefined, FALSE)
    /\ UNCHANGED <<impl, clock, nextEph, nextNonce, sessionKeys, pendingKeyExchanges,
                   ephemeralKeys, status, dups, acceptedInits>>
    /\ UNCHANGED replayVars

(* A caller of client u abandons the exchange with a peer:
   removePendingKex(peerId), whether or not an entry is stored *)
Cancel ==
    /\ \E u \in Users : \E peerId \in Ids \ {u} :
          /\ pendingKeyExchanges' = [pendingKeyExchanges EXCEPT ![u] =
                 removePendingKex(@, peerId)]
          /\ outcome' = Outcome("removePendingKex", u, peerId, "none", Undefined,
                                Undefined, FALSE)
    /\ UNCHANGED <<impl, clock, nextEph, nextNonce, sessionKeys, ephemeralKeys, status,
                   net, dups, tampers, acceptedInits>>
    /\ UNCHANGED replayVars

Tick ==
    /\ clock < Epoch + MaxTicks * ClockStep
    /\ clock' = clock + ClockStep
    /\ outcome' = Outcome("tick", Mallory, Mallory, "none", Undefined, Undefined, FALSE)
    /\ UNCHANGED <<impl, nextEph, nextNonce, sessionKeys, pendingKeyExchanges,
                   ephemeralKeys, status, net, dups, tampers, acceptedInits>>
    /\ UNCHANGED replayVars

(* Time passing while a handshake is stalled *)
Elapse ==
    /\ clock < Epoch + MaxElapse * ClockStep
    /\ clock' = clock + ClockStep
    /\ outcome' = Outcome("tick", Mallory, Mallory, "none", Undefined, Undefined, FALSE)
    /\ UNCHANGED <<impl, nextEph, nextNonce, sessionKeys, pendingKeyExchanges,
                   ephemeralKeys, status, net, dups, tampers, acceptedInits>>
    /\ UNCHANGED replayVars

(* clearExpiredPendingKex() called on client u *)
ClearExpired ==
    /\ \E u \in Users :
          /\ pendingKeyExchanges' = [pendingKeyExchanges EXCEPT ![u] =
                 clearExpiredPendingKex(@)]
          /\ outcome' = Outcome("clearExpiredPendingKex", u, u, "none", Undefined,
                                Undefined, FALSE)
    /\ UNCHANGED <<impl, clock, nextEph, nextNonce, sessionKeys, ephemeralKeys, status,
                   net, dups, tampers, acceptedInits>>
    /\ UNCHANGED replayVars

(* Chat component: cleanup of the socket effect, on unmount or logout. The
   socket is closed, so events in flight to u are lost. *)
Chat_cleanup(u) ==
    /\ net' = {m \in net : m.receiverId # u}
    /\ sessionKeys' = [sessionKeys EXCEPT ![u] = clearAllSessionKeys(@)]
    /\ outcome' = Outcome("cleanup", u, u, "none", Undefined, Undefined, FALSE)
    /\ UNCHANGED <<nextEph, nextNonce, pendingKeyExchanges, ephemeralKeys, status,
                   acceptedInits>>

Teardown ==
    /\ impl = "chat"
    /\ \E u \in Users : Chat_cleanup(u)
    /\ UNCHANGED <<impl, clock, dups, tampers>>
    /\ UNCHANGED replayVars

----------------------------------------------------------------------------
(* Application messages: encryption, replay protection, relay *)

TIMESTAMP_WINDOW_MS == 5 * 60 * 1000
CLIENT_TIMESTAMP_WINDOW_MS == 5 * 60 * 1000
timestampWindowMs == 5 * 60 * 1000

(* the clock moves a whole window at a time *)
ReplayStep == TIMESTAMP_WINDOW_MS

Has(obj, name) == name \in DOMAIN obj

(* JavaScript truthiness of the optional replay fields *)
NonceTruthy(message) == Has(message, "nonce") /\ message.nonce # 0
TimestampTruthy(message) == Has(message, "timestamp") /\ message.timestamp # 0

(* Map.get(key) || 0 *)
GetOrZero(map, key) == IF key \in DOMAIN map THEN map[key] ELSE 0

Put(map, key, value) == [k \in DOMAIN map \cup {key} |-> IF k = key THEN value ELSE map[k]]

(* [a, b].sort().join('-') over the user ids *)
Rank(id) == CASE id = "A" -> 1 [] id = "B" -> 2 [] OTHER -> 3
SortedJoin(a, b) == IF Rank(a) <= Rank(b) THEN <<a, b>> ELSE <<b, a>>

(* a derivation that binds the deriving user's id into the HKDF info *)
AsymmetricConversationKey(myUserId, peerPublicKey) ==
    [secret |-> computeSharedSecret(KeyExchangeKeyPair(myUserId).privateKey, peerPublicKey),
     salt |-> <<"CryptShare-ConversationKey-v1">>,
     info |-> <<"CryptShare-Conversation", myUserId>>]

deriveConversationKey(myUserId, peerPublicKey) ==
    [secret |-> computeSharedSecret(KeyExchangeKeyPair(myUserId).privateKey, peerPublicKey),
     salt |-> <<"CryptShare-ConversationKey-v1">>,
     info |-> <<"CryptShare-Conversation">>]

encryptMessage(key, plaintext, iv) ==
    [ciphertext |-> [key |-> key, iv |-> iv, plaintext |-> plaintext], iv |-> iv]

(* AES-GCM: decryption under another key or iv fails the authentication tag *)
CanDecrypt(key, ciphertext, iv) == ciphertext.key = key /\ ciphertext.iv = iv
decryptMessage(key, ciphertext, iv) == ciphertext.plaintext

(* --- server middleware ------------------------------------------------ *)

SkippedNonceLayer(message) == << >>

SocketNonceLayer(message) ==
    IF NonceTruthy(message) /\ message.nonce \in usedNonces
    THEN <<"Duplicate nonce">> ELSE << >>

SocketTimestampLayer(message) ==
    IF TimestampTruthy(message)
         /\ Abs(clock - message.timestamp) > TIMESTAMP_WINDOW_MS
    THEN <<"Stale timestamp">> ELSE << >>

LaxSequenceLayer(message, conversationId) ==
    IF Has(message, "sequence")
         /\ message.sequence < GetOrZero(sequenceNumbers, conversationId)
    THEN <<"Invalid sequence">> ELSE << >>

SocketSequenceLayer(message, conversationId) ==
    IF Has(message, "sequence")
         /\ message.sequence <= GetOrZero(sequenceNumbers, conversationId)
    THEN <<"Invalid sequence">> ELSE << >>

(* a validator that judges the message and leaves the commit to its caller *)
UncommittedSocketMessage(message, senderId, recipientId) ==
    LET conversationId == SortedJoin(senderId, recipientId)
        errors == SocketNonceLayer(message) \o SocketTimestampLayer(message)
                     \o SocketSequenceLayer(message, conversationId)
    IN  [valid |-> Len(errors) = 0,
         errors |-> errors,
         conversationId |-> conversationId,
         usedNonces |-> usedNonces,
         nonceTimers |-> nonceTimers,
         sequenceNumbers |-> sequenceNumbers]

(* The verdict, and the module state the call leaves behind *)
validateSocketMessage(message, senderId, recipientId) ==
    LET conversationId == SortedJoin(senderId, recipientId)
        errors == SocketNonceLayer(message) \o SocketTimestampLayer(message)
                     \o SocketSequenceLayer(message, conversationId)
        valid == Len(errors) = 0
    IN  [valid |-> valid,
         errors |-> errors,
         conversationId |-> conversationId,
         usedNonces |-> IF valid /\ NonceTruthy(message)
                        THEN usedNonces \cup {message.nonce} ELSE usedNonces,
         nonceTimers |-> IF valid /\ NonceTruthy(message)
                         THEN nonceTimers (+) SetToBag({[nonce |-> message.nonce,
                                          due |-> clock + TIMESTAMP_WINDOW_MS]})
                         ELSE nonceTimers,
         sequenceNumbers |-> IF valid /\ Has(message, "sequence")
                             THEN Put(sequenceNumbers, conversationId, message.sequence)
                             ELSE sequenceNumbers]

(* the express middleware of the same module: req.userId and req.body; valid
   stands for next() being called, invalid for the 400 response *)
HttpConversationId(req) ==
    IF Has(req.body, "conversationId") THEN req.body.conversationId
    ELSE <<req.userId, req.body.recipientId>>

HttpNonceLayer(req) ==
    IF ~NonceTruthy(req.body) THEN <<"Missing nonce">>
    ELSE IF req.body.nonce \in usedNonces
         THEN <<"REPLAY_ATTACK: Duplicate nonce detected">> ELSE << >>

HttpTimestampLayer(req) ==
    IF ~TimestampTruthy(req.body) THEN <<"Missing timestamp">>
    ELSE IF Abs(clock - req.body.timestamp) > TIMESTAMP_WINDOW_MS
         THEN <<"REPLAY_ATTACK: Stale timestamp">> ELSE << >>

HttpSequenceLayer(req) ==
    IF Has(req.body, "sequence")
         /\ req.body.sequence <= GetOrZero(sequenceNumbers, HttpConversationId(req))
    THEN <<"REPLAY_ATTACK: Invalid sequence number">> ELSE << >>

Http_validateReplayProtection(req) ==
    LET conversationId == HttpConversationId(req)
        errors == HttpNonceLayer(req) \o HttpTimestampLayer(req) \o HttpSequenceLayer(req)
        valid == Len(errors) = 0
    IN  [valid |-> valid,
         errors |-> errors,
         conversationId |-> conversationId,
         usedNonces |-> IF valid /\ NonceTruthy(req.body)
                        THEN usedNonces \cup {req.body.nonce} ELSE usedNonces,
         nonceTimers |-> IF valid /\ NonceTruthy(req.body)
                         THEN nonceTimers (+) SetToBag({[nonce |-> req.body.nonce,
                                          due |-> clock + TIMESTAMP_WINDOW_MS]})
                         ELSE nonceTimers,
         sequenceNumbers |-> IF valid /\ Has(req.body, "sequence")
                             THEN Put(sequenceNumbers, conversationId, req.body.sequence)
                             ELSE sequenceNumbers]

(* --- the demo's ReplayProtectionServer --------------------------------- *)

validateMessage(message, conversationId) ==
    LET errors ==
            (IF message.nonce \in demoServer.usedNonces
             THEN <<"DUPLICATE_NONCE">> ELSE << >>)
         \o (IF Abs(clock - message.timestamp) > timestampWindowMs
             THEN <<"STALE_TIMESTAMP">> ELSE << >>)
         \o (IF message.sequence <= GetOrZero(demoServer.sequenceNumbers, conversationId)
             THEN <<"INVALID_SEQUENCE">> ELSE << >>)
        valid == Len(errors) = 0
    IN  [valid |-> valid,
         errors |-> errors,
         conversationId |-> conversationId,
         server |-> IF valid
                    THEN [usedNonces |-> demoServer.usedNonces \cup {message.nonce},
                          sequenceNumbers |-> Put(demoServer.sequenceNumbers,
                                                  conversationId, message.sequence)]
                    ELSE demoServer]

(* --- client utils ------------------------------------------------------ *)

ClientSequence(u, conversationId) ==
    IF conversationId \in DOMAIN sequences[u]
    THEN sequences[u][conversationId] ELSE [sent |-> 0, received |-> 0]

addReplayProtection(u, message, conversationId, nonce) ==
    [message |-> message @@ [nonce |-> nonce,
                             timestamp |-> clock,
                             sequence |-> ClientSequence(u, conversationId).sent + 1],
     sequences |-> Put(sequences[u], conversationId,
                       [ClientSequence(u, conversationId) EXCEPT !.sent = @ + 1])]

(* undefined <= n is false in JavaScript: a missing sequence is stored as it is;
   the model's callers pass complete messages *)
Client_validateReplayProtection(u, message, conversationId) ==
    LET duplicate == message.nonce \in clientUsedNonces[u]
        stale == Abs(clock - message.timestamp) > CLIENT_TIMESTAMP_WINDOW_MS
        outOfOrder == message.sequence <= ClientSequence(u, conversationId).received
        errors == (IF duplicate THEN <<"REPLAY_DETECTED: Duplicate nonce">> ELSE << >>)
               \o (IF stale THEN <<"REPLAY_DETECTED: Stale timestamp">> ELSE << >>)
               \o (IF outOfOrder THEN <<"REPLAY_DETECTED: Invalid sequence number">>
                   ELSE << >>)
    IN  [valid |-> Len(errors) = 0,
         errors |-> errors,
         conversationId |-> conversationId,
         usedNonces |-> clientUsedNonces[u] \cup {message.nonce},
         nonceTimers |-> IF duplicate THEN clientNonceTimers[u]
                         ELSE clientNonceTimers[u] (+) SetToBag({[nonce |-> message.nonce,
                                   due |-> clock + CLIENT_TIMESTAMP_WINDOW_MS]}),
         sequences |-> IF outOfOrder
                       THEN Put(sequences[u], conversationId,
                                ClientSequence(u, conversationId))
                       ELSE Put(sequences[u], conversationId,
                                [ClientSequence(u, conversationId)
                                    EXCEPT !.received = message.sequence])]

Verdict(validator, user, message, result) ==
    [validator |-> validator, user |-> user, message |-> message,
     conversationId |-> result.conversationId, valid |-> result.valid,
     errors |-> result.errors]

NoVerdict ==
    [validator |-> "none", user |-> Mallory, message |-> Undefined,
     conversationId |-> Undefined, valid |-> TRUE, errors |-> << >>]

(* --- handlers ---------------------------------------------------------- *)

ReplayFields == {"nonce", "timestamp", "sequence"}

(* the properties of obj among names that are present *)
Pick(obj, names) == [f \in DOMAIN obj \cap names |-> obj[f]]

(* a key lookup that prefers whatever key the handshake has derived so far *)
HandshakeFirst_getConversationKey(u, peerId, peerPublicKeys) ==
    IF Prop(getPendingKex(pendingKeyExchanges[u], peerId), "sessionKey") # Undefined
    THEN pendingKeyExchanges[u][peerId].sessionKey
    ELSE IF conversationKeysRef[u][peerId] # Undefined
    THEN conversationKeysRef[u][peerId]
    ELSE deriveConversationKey(u, peerPublicKeys.keyExchange)

(* Chat component: getConversationKey *)
Chat_getConversationKey(u, peerId, peerPublicKeys) ==
    IF conversationKeysRef[u][peerId] # Undefined
    THEN conversationKeysRef[u][peerId]
    ELSE deriveConversationKey(u, peerPublicKeys.keyExchange)

(* a cache whose entries are not told apart by peer *)
Unkeyed_getOrCreateConversationKey(u, peerId, peerPublicKey) ==
    IF \E c \in DOMAIN conversationKeyCache[u] : conversationKeyCache[u][c] # Undefined
    THEN conversationKeyCache[u][CHOOSE c \in DOMAIN conversationKeyCache[u] :
                                    conversationKeyCache[u][c] # Undefined]
    ELSE deriveConversationKey(u, peerPublicKey)

(* keys module: getOrCreateConversationKey *)
getOrCreateConversationKey(u, peerId, peerPublicKey) ==
    IF conversationKeyCache[u][SortedJoin(u, peerId)] # Undefined
    THEN conversationKeyCache[u][SortedJoin(u, peerId)]
    ELSE deriveConversationKey(u, peerPublicKey)

Chat_handleSendMessage(u, peerId, messageText) ==
    LET conversationKey == Chat_getConversationKey(u, peerId, getUser(peerId))
        encrypted == encryptMessage(conversationKey, messageText, <<"iv", nextNonce>>)
        conversationId == SortedJoin(u, peerId)
        protected == addReplayProtection(u,
                         [to |-> peerId, ciphertext |-> encrypted.ciphertext,
                          iv |-> encrypted.iv], conversationId, nextNonce)
    IN  /\ conversationKeysRef' = [conversationKeysRef EXCEPT ![u][peerId] = conversationKey]
        /\ sequences' = [sequences EXCEPT ![u] = protected.sequences]
        /\ nextNonce' = nextNonce + 1
        /\ toServer' = toServer \cup {[from |-> u, data |-> protected.message]}
        /\ verdict' = NoVerdict
        /\ UNCHANGED <<usedNonces, sequenceNumbers, nonceTimers, clientUsedNonces,
                       clientNonceTimers, demoServer, conversationKeyCache, toClient,
                       surfaced, messageErrors, stored>>

(* socket service: sendEncryptedMessage of the client connected as u *)
Socket_sendEncryptedMessage(u, recipientId, plaintext) ==
    LET conversationKey == getOrCreateConversationKey(u, recipientId,
                                                      getUser(recipientId).keyExchange)
        encrypted == encryptMessage(conversationKey, plaintext, <<"iv", nextNonce>>)
    IN  /\ conversationKeyCache' =
              [conversationKeyCache EXCEPT ![u][SortedJoin(u, recipientId)] = conversationKey]
        /\ nextNonce' = nextNonce + 1
        /\ toServer' = toServer \cup
              {[from |-> u,
                data |-> [to |-> recipientId, ciphertext |-> encrypted.ciphertext,
                          iv |-> encrypted.iv, timestamp |-> clock]]}
        /\ verdict' = NoVerdict
        /\ UNCHANGED <<usedNonces, sequenceNumbers, nonceTimers, clientUsedNonces,
                       sequences, clientNonceTimers, demoServer, conversationKeysRef,
                       toClient, surfaced, messageErrors, stored>>

RelayAlways_onMessage(userId, data) ==
    LET validation == validateSocketMessage(Pick(data, ReplayFields), userId, data.to)
        relayed == Pick(data, {"ciphertext", "iv"} \cup ReplayFields)
                      @@ [from |-> userId, to |-> data.to]
    IN  /\ usedNonces' = validation.usedNonces
        /\ nonceTimers' = validation.nonceTimers
        /\ sequenceNumbers' = validation.sequenceNumbers
        /\ verdict' = Verdict("validateSocketMessage", userId,
                              Pick(data, ReplayFields), validation)
        /\ toClient' = toClient (+) SetToBag({relayed})
        /\ stored' = stored (+) SetToBag({[sender |-> userId,
                         recipient |-> data.to,
                         message |-> Pick(data, {"ciphertext", "iv", "nonce",
                                                 "timestamp"})]})
        /\ messageErrors' =
              IF validation.valid THEN messageErrors
              ELSE messageErrors (+) SetToBag({[to |-> userId,
                                                details |-> validation.errors]})
        /\ UNCHANGED <<clientUsedNonces, sequences, clientNonceTimers, demoServer,
                       conversationKeysRef, conversationKeyCache, surfaced>>

(* server: socket.on('message') of the socket that joined as userId *)
Server_onMessage(userId, data) ==
    LET validation == validateSocketMessage(Pick(data, ReplayFields), userId, data.to)
        relayed == Pick(data, {"ciphertext", "iv"} \cup ReplayFields)
                      @@ [from |-> userId, to |-> data.to]
    IN  /\ usedNonces' = validation.usedNonces
        /\ nonceTimers' = validation.nonceTimers
        /\ sequenceNumbers' = validation.sequenceNumbers
        /\ verdict' = Verdict("validateSocketMessage", userId,
                              Pick(data, ReplayFields), validation)
        /\ IF validation.valid
           THEN /\ toClient' = toClient (+) SetToBag({relayed})
                /\ stored' = stored (+) SetToBag({[sender |-> userId,
                                 recipient |-> data.to,
                                 message |-> Pick(data, {"ciphertext", "iv", "nonce",
                                                         "timestamp"})]})
                /\ UNCHANGED messageErrors
           ELSE /\ messageErrors' = messageErrors (+) SetToBag({[to |-> userId,
                                 details |-> validation.errors]})
                /\ UNCHANGED <<toClient, stored>>
        /\ UNCHANGED <<clientUsedNonces, sequences, clientNonceTimers, demoServer,
                       conversationKeysRef, conversationKeyCache, surfaced>>

(* The same handler by the stages at which it runs. It is an async function:
   the validation runs synchronously when the event is dispatched, and the
   handler then suspends at each await (the logger, Message.create), where the
   handlers of other events run. A run is a task: the event, the stage it has
   reached and its verdict. *)
Task(userId, data, validation, pc) ==
    [from |-> userId, data |-> data, valid |-> validation.valid,
     errors |-> validation.errors, pc |-> pc]

(* up to the first await: validation, check and commit *)
Server_onMessage_validate(userId, data) ==
    LET validation == validateSocketMessage(Pick(data, ReplayFields), userId, data.to)
    IN  /\ usedNonces' = validation.usedNonces
        /\ nonceTimers' = validation.nonceTimers
        /\ sequenceNumbers' = validation.sequenceNumbers
        /\ verdict' = Verdict("validateSocketMessage", userId,
                              Pick(data, ReplayFields), validation)
        /\ serverTasks' = serverTasks (+) SetToBag({Task(userId, data, validation, "logging")})
        /\ UNCHANGED <<toClient, stored, messageErrors>>

(* after logger.logReplayAttack: message_error to the sender, return *)
Server_onMessage_reject(task) ==
    /\ task.pc = "logging"
    /\ ~task.valid
    /\ messageErrors' = messageErrors (+) SetToBag({[to |-> task.from,
                                                     details |-> task.errors]})
    /\ serverTasks' = (serverTasks (-) SetToBag({task}))
                          (+) SetToBag({[task EXCEPT !.pc = "done"]})
    /\ UNCHANGED <<toClient, stored>>

(* after logger.logMessageSent: forward to the recipient *)
Server_onMessage_relay(task) ==
    /\ task.pc = "logging"
    /\ task.valid
    /\ toClient' = toClient (+) SetToBag({Pick(task.data, {"ciphertext", "iv"} \cup ReplayFields)
                                             @@ [from |-> task.from, to |-> task.data.to]})
    /\ serverTasks' = (serverTasks (-) SetToBag({task}))
                          (+) SetToBag({[task EXCEPT !.pc = "storing"]})
    /\ UNCHANGED <<stored, messageErrors>>

(* Message.create *)
Server_onMessage_store(task) ==
    /\ task.pc = "storing"
    /\ stored' = stored (+) SetToBag({[sender |-> task.from,
                     recipient |-> task.data.to,
                     message |-> Pick(task.data, {"ciphertext", "iv", "nonce",
                                                   "timestamp"})]})
    /\ serverTasks' = (serverTasks (-) SetToBag({task}))
                          (+) SetToBag({[task EXCEPT !.pc = "done"]})
    /\ UNCHANGED <<toClient, messageErrors>>

(* a listener that forgets the conversation key when decryption fails *)
Evicting_onMessage(u, data) ==
    LET conversationKey == getOrCreateConversationKey(u, data.from,
                                                      getUser(data.from).keyExchange)
        received == Pick(data, DOMAIN data \ {"to"})
        readable == CanDecrypt(conversationKey, data.ciphertext, data.iv)
        callbackData ==
            IF readable
            THEN received @@ [plaintext |-> decryptMessage(conversationKey,
                                              data.ciphertext, data.iv),
                              decrypted |-> TRUE]
            ELSE received @@ [plaintext |-> "[Decryption failed]", error |-> TRUE]
    IN  /\ conversationKeyCache' =
              [conversationKeyCache EXCEPT ![u][SortedJoin(u, data.from)] =
                  IF readable THEN conversationKey ELSE Undefined]
        /\ surfaced' = [surfaced EXCEPT ![u] = @ (+) SetToBag({callbackData})]
        /\ verdict' = NoVerdict
        /\ UNCHANGED <<usedNonces, sequenceNumbers, nonceTimers, clientUsedNonces,
                       sequences, clientNonceTimers, demoServer, conversationKeysRef,
                       toServer, messageErrors, stored>>

(* client: socket.on('message') registered by onMessage, then the callback *)
Client_onMessage(u, data) ==
    LET conversationKey == getOrCreateConversationKey(u, data.from,
                                                      getUser(data.from).keyExchange)
        received == Pick(data, DOMAIN data \ {"to"})
        callbackData ==
            IF CanDecrypt(conversationKey, data.ciphertext, data.iv)
            THEN received @@ [plaintext |-> decryptMessage(conversationKey,
                                              data.ciphertext, data.iv),
                              decrypted |-> TRUE]
            ELSE received @@ [plaintext |-> "[Decryption failed]", error |-> TRUE]
    IN  /\ conversationKeyCache' =
              [conversationKeyCache EXCEPT ![u][SortedJoin(u, data.from)] = conversationKey]
        /\ surfaced' = [surfaced EXCEPT ![u] = @ (+) SetToBag({callbackData})]
        /\ verdict' = NoVerdict
        /\ UNCHANGED <<usedNonces, sequenceNumbers, nonceTimers, clientUsedNonces,
                       sequences, clientNonceTimers, demoServer, conversationKeysRef,
                       toServer, messageErrors, stored>>

(* --- events ------------------------------------------------------------ *)

kexFrame == <<impl, nextEph, sessionKeys, pendingKeyExchanges, ephemeralKeys, status,
              net, tampers, acceptedInits, outcome>>

SendMessage ==
    /\ sends < MaxSend
    /\ sends' = sends + 1
    /\ \E u \in Users : \E peerId \in Users \ {u} : Chat_handleSendMessage(u, peerId, "hello")
    /\ UNCHANGED <<kexFrame, serverTasks, clock, dups>>

Plaintexts == {"hello", "see you"}

SendEncrypted ==
    /\ sends < MaxSend
    /\ sends' = sends + 1
    /\ \E u \in Users : \E recipientId \in Users \ {u} : \E plaintext \in Plaintexts :
          Socket_sendEncryptedMessage(u, recipientId, plaintext)
    /\ UNCHANGED <<kexFrame, serverTasks, clock, dups>>

(* a 'message' event reaches the server; a captured one may be sent again *)
ServerMessageVia(keeps) ==
    /\ \E m \in toServer : \E keep \in keeps :
          /\ keep => dups < MaxDup
          /\ dups' = IF keep THEN dups + 1 ELSE dups
          /\ toServer' = IF keep THEN toServer ELSE toServer \ {m}
          /\ Server_onMessage(m.from, m.data)
    /\ UNCHANGED <<kexFrame, serverTasks, clock, nextNonce, sends>>

(* A caller (file sharing, sending, receiving) of client u asks the keys module
   for the conversation key with a registered user, passing that user's
   directory key; the call caches what it returns. *)
KeysLookup ==
    /\ \E u \in Users : \E peerId \in Ids \ {u} :
          LET key == getOrCreateConversationKey(u, peerId, getUser(peerId).keyExchange)
          IN  /\ conversationKeyCache' =
                    [conversationKeyCache EXCEPT ![u][SortedJoin(u, peerId)] = key]
              /\ outcome' = Outcome("getOrCreateConversationKey", u, peerId, "none", key,
                                    Undefined, FALSE)
    /\ verdict' = NoVerdict
    /\ UNCHANGED <<impl, clock, nextEph, nextNonce, sessionKeys, pendingKeyExchanges,
                   ephemeralKeys, status, net, dups, tampers, acceptedInits>>
    /\ UNCHANGED <<usedNonces, sequenceNumbers, nonceTimers, clientUsedNonces, sequences,
                   clientNonceTimers, demoServer, conversationKeysRef, toServer, toClient,
                   surfaced, messageErrors, stored, sends, serverTasks>>

(* the Chat component of client u asks for the conversation key with a peer,
   with the peer's public keys or without (then fetched from the directory) *)
ChatLookup ==
    /\ \E u \in Users : \E peerId \in Ids \ {u} :
          LET key == Chat_getConversationKey(u, peerId, getUser(peerId))
          IN  /\ conversationKeysRef' = [conversationKeysRef EXCEPT ![u][peerId] = key]
              /\ outcome' = Outcome("getConversationKey", u, peerId, "none", key,
                                    Undefined, FALSE)
    /\ verdict' = NoVerdict
    /\ UNCHANGED <<impl, clock, nextEph, nextNonce, sessionKeys, pendingKeyExchanges,
                   ephemeralKeys, status, net, dups, tampers, acceptedInits>>
    /\ UNCHANGED <<usedNonces, sequenceNumbers, nonceTimers, clientUsedNonces, sequences,
                   clientNonceTimers, demoServer, conversationKeyCache, toServer, toClient,
                   surfaced, messageErrors, stored, sends, serverTasks>>

(* a 'message' event is dispatched at the server: its handler starts *)
ServerReceive ==
    /\ \E m \in toServer : \E keep \in BOOLEAN :
          /\ keep => dups < MaxDup
          /\ dups' = IF keep THEN dups + 1 ELSE dups
          /\ toServer' = IF keep THEN toServer ELSE toServer \ {m}
          /\ Server_onMessage_validate(m.from, m.data)
    /\ UNCHANGED <<kexFrame, clock, nextNonce, sends>>
    /\ UNCHANGED <<clientUsedNonces, sequences, clientNonceTimers, demoServer,
                   conversationKeysRef, conversationKeyCache, surfaced>>

(* a suspended handler resumes *)
ServerResume(step) ==
    /\ \E task \in BagToSet(serverTasks) :
          CASE step = "reject" -> Server_onMessage_reject(task)
            [] step = "relay" -> Server_onMessage_relay(task)
            [] step = "store" -> Server_onMessage_store(task)
    /\ verdict' = NoVerdict
    /\ UNCHANGED <<kexFrame, clock, nextNonce, sends, dups, toServer>>
    /\ UNCHANGED <<usedNonces, sequenceNumbers, nonceTimers, clientUsedNonces, sequences,
                   clientNonceTimers, demoServer, conversationKeysRef,
                   conversationKeyCache, surfaced>>

ServerReject == ServerResume("reject")
ServerRelay == ServerResume("relay")
ServerStore == ServerResume("store")

(* a relayed 'message' event reaches its recipient; the transport may duplicate it *)
ClientMessageVia(keeps) ==
    /\ \E m \in BagToSet(toClient) : \E keep \in keeps :
          /\ m.to \in Users
          /\ keep => dups < MaxDup
          /\ dups' = IF keep THEN dups + 1 ELSE dups
          /\ toClient' = IF keep THEN toClient ELSE toClient (-) SetToBag({m})
          /\ Client_onMessage(m.to, m)
    /\ UNCHANGED <<kexFrame, serverTasks, clock, nextNonce, sends>>

(* A relayed 'message' event is damaged on its way to the client: its iv is
   replaced, or its ciphertext no longer carries a valid authentication tag *)
Garbled(m) ==
    {[m EXCEPT !.iv = <<"garbled">>],
     [m EXCEPT !.ciphertext = [@ EXCEPT !.key = Undefined]]}

Garble ==
    /\ tampers < MaxTamper
    /\ tampers' = tampers + 1
    /\ \E m \in BagToSet(toClient) : \E g \in Garbled(m) :
          toClient' = (toClient (-) SetToBag({m})) (+) SetToBag({g})
    /\ UNCHANGED <<impl, clock, nextEph, nextNonce, sessionKeys, pendingKeyExchanges,
                   ephemeralKeys, status, net, dups, acceptedInits, outcome>>
    /\ UNCHANGED <<usedNonces, sequenceNumbers, nonceTimers, clientUsedNonces, sequences,
                   clientNonceTimers, demoServer, conversationKeysRef,
                   conversationKeyCache, toServer, surfaced, messageErrors, stored,
                   sends, serverTasks, verdict>>

ServerMessage == ServerMessageVia(BOOLEAN)
ClientMessage == ClientMessageVia(BOOLEAN)

(* a transport that does not duplicate *)
ServerMessageOnce == ServerMessageVia({FALSE})
ClientMessageOnce == ClientMessageVia({FALSE})

(* The page of client u is loaded again: the replay module's state starts
   anew (const usedNonces = new Set(); const sequences = {}) *)
ClientRestart ==
    /\ \E u \in Users :
          /\ sequences[u] # << >>
          /\ sequences' = [sequences EXCEPT ![u] = << >>]
          /\ clientUsedNonces' = [clientUsedNonces EXCEPT ![u] = {}]
          /\ clientNonceTimers' = [clientNonceTimers EXCEPT ![u] = EmptyBag]
    /\ verdict' = NoVerdict
    /\ UNCHANGED <<kexFrame, serverTasks, clock, nextNonce, dups>>
    /\ UNCHANGED <<usedNonces, sequenceNumbers, nonceTimers, demoServer,
                   conversationKeysRef, conversationKeyCache, toServer, toClient,
                   surfaced, messageErrors, stored, sends>>

Advance ==
    /\ clock < Epoch + MaxAdvance * ReplayStep
    /\ clock' = clock + ReplayStep
    /\ verdict' = NoVerdict
    /\ UNCHANGED <<kexFrame, serverTasks, nextNonce, dups>>
    /\ UNCHANGED <<usedNonces, sequenceNumbers, nonceTimers, clientUsedNonces, sequences,
                   clientNonceTimers, demoServer, conversationKeysRef,
                   conversationKeyCache, toServer, toClient, surfaced, messageErrors,
                   stored, sends>>

(* half a window passes *)
AdvanceHalf ==
    /\ clock < Epoch + MaxAdvance * ReplayStep
    /\ clock' = clock + (ReplayStep \div 2)
    /\ verdict' = NoVerdict
    /\ UNCHANGED <<kexFrame, serverTasks, nextNonce, dups>>
    /\ UNCHANGED <<usedNonces, sequenceNumbers, nonceTimers, clientUsedNonces, sequences,
                   clientNonceTimers, demoServer, conversationKeysRef,
                   conversationKeyCache, toServer, toClient, surfaced, messageErrors,
                   stored, sends>>

(* setTimeout(() => usedNonces.delete(nonce), TIMESTAMP_WINDOW_MS) comes due *)
NonceTimer ==
    /\ \E t \in BagToSet(nonceTimers) :
          /\ clock >= t.due
          /\ usedNonces' = usedNonces \ {t.nonce}
          /\ nonceTimers' = nonceTimers (-) SetToBag({t})
    /\ verdict' = NoVerdict
    /\ UNCHANGED <<kexFrame, serverTasks, clock, nextNonce, dups>>
    /\ UNCHANGED <<sequenceNumbers, clientUsedNonces, sequences, clientNonceTimers,
                   demoServer, conversationKeysRef, conversationKeyCache, toServer,
                   toClient, surfaced, messageErrors, stored, sends>>

ClientNonceTimer ==
    /\ \E u \in Users : \E t \in BagToSet(clientNonceTimers[u]) :
          /\ clock >= t.due
          /\ clientUsedNonces' = [clientUsedNonces EXCEPT ![u] = @ \ {t.nonce}]
          /\ clientNonceTimers' = [clientNonceTimers EXCEPT ![u] = @ (-) SetToBag({t})]
    /\ verdict' = NoVerdict
    /\ UNCHANGED <<kexFrame, serverTasks, clock, nextNonce, dups>>
    /\ UNCHANGED <<usedNonces, sequenceNumbers, nonceTimers, sequences, demoServer,
                   conversationKeysRef, conversationKeyCache, toServer, toClient,
                   surfaced, messageErrors, stored, sends>>

(* Messages a caller may hand to a validator: nonces and sequence numbers from
   small sets, stamped now or just outside the window *)
TestMessages ==
    [nonce : 1..MaxTestNonce,
     timestamp : {clock, clock - TIMESTAMP_WINDOW_MS - 1},
     sequence : 1..MaxTestSeq]

(* ... and the same with replay fields left out *)
PartialTestMessages ==
    {Pick(message, fields) : message \in TestMessages, fields \in SUBSET ReplayFields}

(* any connected socket emits 'message' with replay fields of its choosing *)
EmitAmong(messages) ==
    /\ sends < MaxEmit
    /\ sends' = sends + 1
    /\ \E userId \in Users : \E to \in Users \ {userId} : \E message \in messages :
          Server_onMessage(userId, message @@ [to |-> to, ciphertext |-> "c", iv |-> "iv"])
    /\ UNCHANGED <<kexFrame, serverTasks, clock, nextNonce, dups, toServer>>

EmitMessage == EmitAmong(PartialTestMessages)

(* Messages of a sender whose clock runs ahead of the server's by up to the
   window, nonce always present, sequence optional *)
SkewedMessages ==
    {Pick(message, fields \cup {"nonce", "timestamp"}) :
        message \in [nonce : 1..MaxTestNonce,
                     timestamp : {clock, clock + TIMESTAMP_WINDOW_MS},
                     sequence : 1..MaxTestSeq],
        fields \in SUBSET {"sequence"}}

(* a connected socket whose clock may run ahead emits 'message' *)
EmitSkewed == EmitAmong(SkewedMessages)

(* a 'message' event the server relayed before is emitted again, unchanged, on
   the socket of its sender *)
ReplayRelayed ==
    /\ dups < MaxDup
    /\ dups' = dups + 1
    /\ \E r \in BagToSet(toClient) :
          Server_onMessage(r.from, Pick(r, DOMAIN r \ {"from"}))
    /\ UNCHANGED <<kexFrame, serverTasks, clock, nextNonce, sends, toServer>>

(* the demo scripts call server.validateMessage(message, conversationId) *)
DemoValidate ==
    /\ \E message \in TestMessages :
          LET result == validateMessage(message, "alice-bob")
          IN  /\ demoServer' = result.server
              /\ verdict' = Verdict("validateMessage", Mallory, message, result)
    /\ UNCHANGED <<kexFrame, serverTasks, clock, nextNonce, dups>>
    /\ UNCHANGED <<usedNonces, sequenceNumbers, nonceTimers, clientUsedNonces, sequences,
                   clientNonceTimers, conversationKeysRef, conversationKeyCache,
                   toServer, toClient, surfaced, messageErrors, stored, sends>>

(* a client calls validateReplayProtection(message, conversationId) *)
ClientValidate ==
    /\ \E u \in Users : \E message \in TestMessages :
          LET result == Client_validateReplayProtection(u, message, <<"A", "B">>)
          IN  /\ clientUsedNonces' = [clientUsedNonces EXCEPT ![u] = result.usedNonces]
              /\ clientNonceTimers' = [clientNonceTimers EXCEPT ![u] = result.nonceTimers]
              /\ sequences' = [sequences EXCEPT ![u] = result.sequences]
              /\ verdict' = Verdict("validateReplayProtection", u, message, result)
    /\ UNCHANGED <<kexFrame, serverTasks, clock, nextNonce, dups>>
    /\ UNCHANGED <<usedNonces, sequenceNumbers, nonceTimers, demoServer,
                   conversationKeysRef, conversationKeyCache, toServer, toClient,
                   surfaced, messageErrors, stored, sends>>

(* Timestamps on and just beyond both edges of the window, now, and the start
   of the epoch *)
StampedTimestamps ==
    {clock, clock - TIMESTAMP_WINDOW_MS, clock - TIMESTAMP_WINDOW_MS - 1,
     clock + TIMESTAMP_WINDOW_MS, clock + TIMESTAMP_WINDOW_MS + 1, 0}

StampedMessages ==
    {Pick(message, fields) :
        message \in [nonce : 1..MaxTestNonce, timestamp : StampedTimestamps,
                     sequence : 1..MaxTestSeq],
        fields \in SUBSET ReplayFields}

(* a connected socket emits 'message' stamped on or around the window's edges *)
EmitStamped == EmitAmong(StampedMessages)

(* The validator's state is lost: clearAll() empties both stores and leaves the
   timers of the nonces pending; a restart of the process drops the timers
   too. *)
clearAll(restart) ==
    [usedNonces |-> {},
     sequenceNumbers |-> << >>,
     nonceTimers |-> IF restart THEN EmptyBag ELSE nonceTimers]

StateLost ==
    /\ usedNonces # {}
    /\ \E restart \in BOOLEAN :
          /\ usedNonces' = clearAll(restart).usedNonces
          /\ sequenceNumbers' = clearAll(restart).sequenceNumbers
          /\ nonceTimers' = clearAll(restart).nonceTimers
    /\ verdict' = NoVerdict
    /\ UNCHANGED <<kexFrame, serverTasks, clock, nextNonce, dups>>
    /\ UNCHANGED <<clientUsedNonces, sequences, clientNonceTimers, demoServer,
                   conversationKeysRef, conversationKeyCache, toServer, toClient,
                   surfaced, messageErrors, stored, sends>>

(* the server calls validateSocketMessage(message, senderId, recipientId) *)
SocketValidateAmong(ids, messages) ==
    /\ \E senderId \in ids : \E recipientId \in ids \ {senderId} :
       \E message \in messages :
          LET result == validateSocketMessage(message, senderId, recipientId)
          IN  /\ usedNonces' = result.usedNonces
              /\ nonceTimers' = result.nonceTimers
              /\ sequenceNumbers' = result.sequenceNumbers
              /\ verdict' = Verdict("validateSocketMessage", senderId, message, result)
    /\ UNCHANGED <<kexFrame, serverTasks, clock, nextNonce, dups>>
    /\ UNCHANGED <<clientUsedNonces, sequences, clientNonceTimers, demoServer,
                   conversationKeysRef, conversationKeyCache, toServer, toClient,
                   surfaced, messageErrors, stored, sends>>

(* a route guarded by the express middleware receives a request of userId *)
HttpValidate ==
    /\ \E userId \in Users : \E recipientId \in Users \ {userId} :
       \E message \in StampedMessages :
          LET req == [userId |-> userId, body |-> message @@ [recipientId |-> recipientId]]
              result == Http_validateReplayProtection(req)
          IN  /\ usedNonces' = result.usedNonces
              /\ nonceTimers' = result.nonceTimers
              /\ sequenceNumbers' = result.sequenceNumbers
              /\ verdict' = Verdict("Http_validateReplayProtection", userId, message, result)
    /\ UNCHANGED <<kexFrame, serverTasks, clock, nextNonce, dups>>
    /\ UNCHANGED <<clientUsedNonces, sequences, clientNonceTimers, demoServer,
                   conversationKeysRef, conversationKeyCache, toServer, toClient,
                   surfaced, messageErrors, stored, sends>>

----------------------------------------------------------------------------
Init ==
    /\ impl \in Impls
    /\ clock = Epoch
    /\ nextEph = 1
    /\ nextNonce = 1
    /\ sessionKeys = [u \in Users |-> [p \in Ids |-> Undefined]]
    /\ pendingKeyExchanges = [u \in Users |-> [p \in Ids |-> Undefined]]
    /\ ephemeralKeys = [u \in Users |-> [p \in Ids |-> Undefined]]
    /\ status = [u \in Users |-> [p \in Ids |-> "none"]]
    /\ net = {}
    /\ dups = 0
    /\ tampers = 0
    /\ acceptedInits = {}
    /\ outcome = Outcome("none", Mallory, Mallory, "none", Undefined, Undefined, FALSE)
    /\ usedNonces = {}
    /\ sequenceNumbers = << >>
    /\ nonceTimers = EmptyBag
    /\ clientUsedNonces = [u \in Users |-> {}]
    /\ sequences = [u \in Users |-> << >>]
    /\ clientNonceTimers = [u \in Users |-> EmptyBag]
    /\ demoServer = [usedNonces |-> {}, sequenceNumbers |-> << >>]
    /\ conversationKeysRef = [u \in Users |-> [p \in Ids |-> Undefined]]
    /\ conversationKeyCache =
          [u \in Users |-> [c \in {SortedJoin(u, p) : p \in Ids} |-> Undefined]]
    /\ toServer = {}
    /\ toClient = EmptyBag
    /\ surfaced = [u \in Users |-> EmptyBag]
    /\ messageErrors = EmptyBag
    /\ stored = EmptyBag
    /\ serverTasks = EmptyBag
    /\ sends = 0
    /\ verdict = NoVerdict

vars == <<kexVars, replayVars>>

(* deliveries, each either consuming the message or duplicated by the transport *)
KexInit == KexInitVia(BOOLEAN)
KexResponse == KexResponseVia(BOOLEAN)
KexConfirm == KexConfirmVia(BOOLEAN)

(* deliveries that consume the message: a transport that does not duplicate *)
KexInitOnce == KexInitVia({FALSE})
KexResponseOnce == KexResponseVia({FALSE})
KexConfirmOnce == KexConfirmVia({FALSE})

(* the first handshake of the run *)
InitiateOnce == nextEph = 1 /\ Initiate

(* The handshake under repeated initiation, duplication, reordering and delay *)
Next ==
    \/ Initiate
    \/ KexInit
    \/ KexResponse
    \/ KexConfirm
    \/ Tick

Spec == Init /\ [][Next]_vars

(* One handshake run, every message delivered once and unmodified *)
NextOnce ==
    \/ InitiateOnce
    \/ KexInitOnce
    \/ KexResponseOnce
    \/ KexConfirmOnce
    \/ Tick

SpecOnce == Init /\ [][NextOnce]_vars

(* One handshake run with an on-path adversary who modifies messages in flight *)
NextTamper ==
    \/ InitiateOnce
    \/ KexInitOnce
    \/ KexResponseOnce
    \/ KexConfirmOnce
    \/ Tamper
    \/ Tick

SpecTamper == Init /\ [][NextTamper]_vars

(* One handshake run with an adversary who signs messages with its own key *)
NextForge ==
    \/ InitiateOnce
    \/ KexInitOnce
    \/ KexResponseOnce
    \/ KexConfirmOnce
    \/ Forge
    \/ Tick

SpecForge == Init /\ [][NextForge]_vars

(* Handshakes with two peers, abandoned at any point *)
NextCancel ==
    \/ InitiateOnce
    \/ InitiateThird
    \/ Cancel
    \/ KexInitOnce
    \/ KexResponseOnce
    \/ KexConfirmOnce

SpecCancel == Init /\ [][NextCancel]_vars

(* Handshakes started at different times, stalled, and swept *)
NextExpire ==
    \/ InitiateOnce
    \/ InitiateThird
    \/ KexInitOnce
    \/ KexResponseOnce
    \/ Elapse
    \/ ClearExpired

SpecExpire == Init /\ [][NextExpire]_vars

(* One handshake run between parties whose clocks differ, or with timestamps
   changed on the way *)
NextStamp ==
    \/ InitiateOnce
    \/ KexInitOnce
    \/ KexResponseOnce
    \/ KexConfirmOnce
    \/ Restamp
    \/ Tick

SpecStamp == Init /\ [][NextStamp]_vars

(* Handshakes with any registered peer over a relay that may hand an Init to a
   user it is not addressed to *)
NextMisroute ==
    \/ InitiateOnce
    \/ InitiateThird
    \/ Misroute
    \/ KexInitOnce
    \/ KexResponseOnce
    \/ KexConfirmOnce
    \/ Tick

SpecMisroute == Init /\ [][NextMisroute]_vars

(* Both peers select each other at the same time: each calls
   initiateKeyExchange before the other's Init reaches it, and then every
   message in flight is delivered once, in any order *)
BothInitiated == \A u \in Users : \A p \in Users \ {u} : status[u][p] # "none"

CrossInitiate ==
    /\ acceptedInits = {}
    /\ Initiate
    /\ status[outcome'.user][outcome'.peer] = "none"

CrossKexInit == BothInitiated /\ KexInitOnce
CrossKexResponse == BothInitiated /\ KexResponseOnce
CrossKexConfirm == BothInitiated /\ KexConfirmOnce

NextCross ==
    \/ CrossInitiate
    \/ CrossKexInit
    \/ CrossKexResponse
    \/ CrossKexConfirm

SpecCross == Init /\ [][NextCross]_vars

(* One handshake run over a transport that duplicates and reorders, all
   deliveries inside the timestamp window *)
NextDup ==
    \/ InitiateOnce
    \/ KexInit
    \/ KexResponse
    \/ KexConfirm

SpecDup == Init /\ [][NextDup]_vars

(* One handshake run of the Chat component in which either client may be torn
   down at any moment *)
NextTeardown ==
    \/ InitiateOnce
    \/ KexInitOnce
    \/ KexResponseOnce
    \/ KexConfirmOnce
    \/ Teardown
    \/ Tick

(* The application-message path and the teardown are the Chat component's *)
InitChat == Init /\ impl = "chat"

(* The Chat component's handshake under repeated initiation: Confirms of
   different handshakes of the same pair arrive in any order *)
NextPromotion ==
    \/ Initiate
    \/ KexInitOnce
    \/ KexResponseOnce
    \/ KexConfirmOnce
    \/ Tick

SpecPromotion == InitChat /\ [][NextPromotion]_vars

(* Both handler implementations under repeated initiation, also after a
   failure, every Init being answered *)
SpecFresh == Init /\ [][NextPromotion]_vars

(* One handshake run without adversary: every socket event in flight is
   eventually delivered, once; the user initiates when they choose and time
   passes as it will *)
SpecLive ==
    /\ Init
    /\ [][NextOnce]_vars
    /\ WF_vars(KexInitOnce)
    /\ WF_vars(KexResponseOnce)
    /\ WF_vars(KexConfirmOnce)

(* One handshake run over more than 60 seconds. Socket events in flight are
   delivered and time passes; initiating is the user's choice. These are all
   the steps of a client: neither implementation schedules a timer. *)
NextStalled ==
    \/ InitiateOnce
    \/ KexInitOnce
    \/ KexResponseOnce
    \/ KexConfirmOnce
    \/ Elapse

SpecStalled ==
    /\ Init
    /\ [][NextStalled]_vars
    /\ WF_vars(KexInitOnce)
    /\ WF_vars(KexResponseOnce)
    /\ WF_vars(KexConfirmOnce)
    /\ WF_vars(Elapse)

SpecTeardown == InitChat /\ [][NextTeardown]_vars

(* Application messages from the sending client through the server to the
   recipient, over a transport that duplicates and lets captured messages be
   sent again *)
NextMsg ==
    \/ SendMessage
    \/ ServerMessage
    \/ ClientMessage
    \/ NonceTimer
    \/ Advance

SpecMsg == InitChat /\ [][NextMsg]_vars

(* The server's 'message' handlers interleaved at their awaits, every captured
   message possibly delivered again while the first delivery is in progress *)
NextConcurrent ==
    \/ SendMessage
    \/ ServerReceive
    \/ ServerReject
    \/ ServerRelay
    \/ ServerStore

SpecConcurrent == InitChat /\ [][NextConcurrent]_vars

(* Messages exchanged while a handshake between the two users is in progress *)
NextUse ==
    \/ InitiateOnce
    \/ KexInitOnce
    \/ KexResponseOnce
    \/ KexConfirmOnce
    \/ SendMessage
    \/ ServerMessageOnce
    \/ ClientMessageOnce

SpecUse == Init /\ [][NextUse]_vars

(* Any sequence of conversation-key lookups of the two clients, for either
   peer, mixed with the sending of messages, which uses the same caches *)
NextCache ==
    \/ KeysLookup
    \/ ChatLookup
    \/ SendMessage
    \/ SendEncrypted

SpecCache == InitChat /\ [][NextCache]_vars

(* Encrypted conversation between the two users, through either sending path *)
NextConversation ==
    \/ SendMessage
    \/ SendEncrypted
    \/ ServerMessage
    \/ ClientMessage

SpecConversation == InitChat /\ [][NextConversation]_vars

HandshakeComplete == \A u \in Users : \E p \in Users : hasSessionKey(sessionKeys[u], p)

SendAfterHandshake == HandshakeComplete /\ SendMessage
SendEncryptedAfterHandshake == HandshakeComplete /\ SendEncrypted

(* A handshake, then a conversation in which a relayed message may be damaged *)
NextGarble ==
    \/ InitiateOnce
    \/ KexInitOnce
    \/ KexResponseOnce
    \/ KexConfirmOnce
    \/ SendAfterHandshake
    \/ SendEncryptedAfterHandshake
    \/ ServerMessageOnce
    \/ Garble
    \/ ClientMessageOnce

SpecGarble == InitChat /\ [][NextGarble]_vars

(* Honest participants only: both send, a client may reload, and every event
   is delivered once, in any order *)
NextHonest ==
    \/ SendMessage
    \/ ClientRestart
    \/ ServerMessageOnce
    \/ ClientMessageOnce

SpecHonest == InitChat /\ [][NextHonest]_vars

(* The server validator under arbitrary messages *)
NextServer ==
    \/ EmitMessage
    \/ NonceTimer
    \/ Advance

SpecServer == InitChat /\ [][NextServer]_vars

(* The server handler over time: messages arrive, accepted ones are sent
   again later, nonce timers fire *)
NextReplay ==
    \/ EmitSkewed
    \/ ReplayRelayed
    \/ NonceTimer
    \/ Advance

SpecReplay == InitChat /\ [][NextReplay]_vars

(* The server handler across a loss of the validator's state *)
NextLoss ==
    \/ EmitStamped
    \/ ReplayRelayed
    \/ StateLost
    \/ NonceTimer
    \/ AdvanceHalf

SpecLoss == InitChat /\ [][NextLoss]_vars

(* The demo's validator under arbitrary messages *)
NextDemo ==
    \/ DemoValidate
    \/ Advance

SpecDemo == InitChat /\ [][NextDemo]_vars

(* The client's replay utilities: outgoing protection and the validator under
   arbitrary messages *)
NextClient ==
    \/ SendMessage
    \/ ClientValidate
    \/ ClientNonceTimer
    \/ Advance

SpecClient == InitChat /\ [][NextClient]_vars

(* Both server validators, called at one instant with arbitrary messages of the
   two users, stamped relative to that instant *)
SocketValidate == SocketValidateAmong(Users, StampedMessages)

NextValidators ==
    \/ SocketValidate
    \/ HttpValidate

SpecValidators == InitChat /\ [][NextValidators]_vars

(* The socket validator called for the conversations among three users, with
   fresh timestamps, sequence numbers that leave gaps, and nonce and sequence
   optional *)
NumberedMessages ==
    {Pick(message, fields \cup {"timestamp"}) :
        message \in [nonce : 1..MaxTestNonce, timestamp : {clock},
                     sequence : 1..(MaxTestSeq + 1)],
        fields \in SUBSET {"nonce", "sequence"}}

SocketValidateNumbered == SocketValidateAmong(Ids, NumberedMessages)

NextSequence ==
    \/ SocketValidateNumbered

SpecSequence == InitChat /\ [][NextSequence]_vars


----------------------------------------------------------------------------
(* Claims about the handshake *)

(* the session key a responder derived for a peer: held in its pending entry
   until confirmed, in its session key store afterwards *)
DerivedKey(u, peerId) ==
    IF Prop(pendingKeyExchanges[u][peerId], "sessionKey") # Undefined
    THEN pendingKeyExchanges[u][peerId].sessionKey
    ELSE getSessionKey(sessionKeys[u], peerId)

UnconfirmedKeyPending(u, peerId) ==
    Prop(pendingKeyExchanges[u][peerId], "sessionKey") # Undefined

\* C1: in one handshake run whose Init, Response and Confirm are each delivered
\* once and unmodified, the session key the initiator stores equals the key the
\* responder derived from the Init, and a Confirm handled inside the 30 s window
\* is accepted, after which both session key stores hold the same key.
C1_SameSessionKey ==
    /\ \A u \in Users : \A p \in Users :
          (hasSessionKey(sessionKeys[u], p) /\ sessionKeys[u][p].role = "initiator")
             => DerivedKey(p, u) = sessionKeys[u][p].key
    /\ (outcome.op = "kex_confirm" /\ isTimestampValid(outcome.msg.timestamp))
          => /\ outcome.err = "none"
             /\ hasSessionKey(sessionKeys[outcome.user], outcome.peer)
             /\ getSessionKey(sessionKeys[outcome.user], outcome.peer)
                   = getSessionKey(sessionKeys[outcome.peer], outcome.user)

C1_Witness ==
    /\ outcome.op = "kex_confirm"
    /\ outcome.err = "none"
    /\ hasSessionKey(sessionKeys[outcome.peer], outcome.user)
    /\ sessionKeys[outcome.peer][outcome.user].role = "initiator"
    /\ sessionKeys[outcome.user][outcome.peer].key
          = sessionKeys[outcome.peer][outcome.user].key

\* C2: a key a responder derived from an Init and that still awaits its Confirm
\* (it sits in the pending store) is not exposed by the session key store.
C2_NoHalfConfirmedKey ==
    \A u \in Users : \A p \in Ids :
        UnconfirmedKeyPending(u, p)
           => getSessionKey(sessionKeys[u], p) # pendingKeyExchanges[u][p].sessionKey

\* C3: handling an Init one of whose signed fields was replaced in flight, the
\* original signature kept, fails (on the signature whenever the timestamp is
\* inside the window), sends no Response and establishes nothing: the pending
\* store and the session key store are left as they were.
C3_TamperedInitRejected ==
    [][(outcome'.op = "kex_init" /\ IsTampered(outcome'.msg))
          => /\ outcome'.err \in {"signature", "timestamp"}
             /\ (Abs(clock' - outcome'.msg.timestamp) <= KEX_TIMESTAMP_WINDOW_MS)
                    => outcome'.err = "signature"
             /\ outcome'.sent = Undefined
             /\ net' \subseteq net
             /\ status'[outcome'.user][outcome'.peer] = "error"
             /\ pendingKeyExchanges' = pendingKeyExchanges
             /\ sessionKeys' = sessionKeys]_vars

C3_Witness ==
    /\ outcome.op = "kex_init"
    /\ IsTampered(outcome.msg)
    /\ outcome.msg.ephemeralPublicKey = MalloryEphemeral.publicKey
    /\ outcome.err = "signature"
    /\ ~hasSessionKey(sessionKeys[outcome.user], outcome.peer)
    /\ pendingKeyExchanges[outcome.user][outcome.peer] = Undefined

\* C4: once every in-flight handshake message has been handled, a party that
\* holds a session key for a peer finds the peer holding the identical key.
C4_AgreementWhenQuiet ==
    net = {} =>
        \A u \in Users : \A p \in Users :
            hasSessionKey(sessionKeys[u], p)
               => /\ hasSessionKey(sessionKeys[p], u)
                  /\ getSessionKey(sessionKeys[p], u) = getSessionKey(sessionKeys[u], p)

\* C5: an initiate for a peer that already has a pending handshake entry neither
\* replaces that entry nor sends another Init.
C5_SecondInitiateCoalesced ==
    [][(outcome'.op = "initiate"
         /\ pendingKeyExchanges[outcome'.user][outcome'.peer] # Undefined)
          => (pendingKeyExchanges' = pendingKeyExchanges /\ net' = net)]_vars

\* C6: after a handler failed on a stale timestamp, an invalid signature or a
\* confirmation-hash mismatch, the status for that peer is error and no pending
\* handshake entry for that peer is left.
C6_FailureClearsPending ==
    (outcome.op \in {"kex_init", "kex_response", "kex_confirm"}
       /\ outcome.err \in {"timestamp", "signature", "hash"})
       => /\ status[outcome.user][outcome.peer] = "error"
          /\ pendingKeyExchanges[outcome.user][outcome.peer] = Undefined

\* C7: an Init whose nonce this responder has already accepted is rejected when
\* it is delivered again: it yields no Response.
C7_ReplayedInitRejected ==
    (outcome.op = "kex_init" /\ outcome.replay)
       => (outcome.err # "none" /\ outcome.sent = Undefined)

----------------------------------------------------------------------------
(* Claims about application messages and replay protection *)

SurfacedWithNonce(u, nonce) ==
    {m \in BagToSet(surfaced[u]) : Has(m, "nonce") /\ m.nonce = nonce}

(* how many times the message callback of u was handed a message with nonce *)
SurfacedCount(u, nonce) ==
    BagCardinality([m \in SurfacedWithNonce(u, nonce) |-> surfaced[u][m]])

Conversations == {SortedJoin(a, b) : a, b \in Users}

LastReceived(u, conversationId) == ClientSequence(u, conversationId).received

LastSequence(conversationId) == GetOrZero(sequenceNumbers, conversationId)

(* the seen-nonce set the named validator consults *)
RecordedNonces(validator) ==
    CASE validator = "validateSocketMessage" -> usedNonces
      [] validator = "validateMessage" -> demoServer.usedNonces
      [] OTHER -> {}

(* C8: every inbound application message passes the anti-replay check at the
   receiving client before it is decrypted and surfaced, so a ciphertext
   delivered twice to the recipient (identical nonce) reaches the recipient's
   message callback at most once. *)
C8_SurfacedAtMostOnce ==
    \A u \in Users : \A nonce \in 1..nextNonce : SurfacedCount(u, nonce) <= 1

(* C9: rejection by an anti-replay validator is all-or-nothing: a call that
   returns valid = false leaves the validator's seen-nonce set and every
   conversation's last sequence number exactly as they were. *)
C9_RejectionAllOrNothing ==
    [][(verdict'.validator # "none" /\ ~verdict'.valid) =>
          /\ usedNonces' = usedNonces
          /\ demoServer' = demoServer
          /\ clientUsedNonces' = clientUsedNonces
          /\ \A c \in Conversations :
                /\ LastSequence(c)' = LastSequence(c)
                /\ \A u \in Users : LastReceived(u, c)' = LastReceived(u, c)]_vars

(* The server's socket validator taken alone commits nothing on rejection. *)
ServerRejectionAllOrNothing ==
    [][(verdict'.validator = "validateSocketMessage" /\ ~verdict'.valid) =>
          /\ usedNonces' = usedNonces
          /\ nonceTimers' = nonceTimers
          /\ sequenceNumbers' = sequenceNumbers]_vars

(* C10: while a nonce the validator accepted is still recorded, every message
   carrying that nonce is rejected, whatever its timestamp and sequence
   number. *)
C10_RecordedNonceRejected ==
    [][(/\ verdict'.validator \in {"validateSocketMessage", "validateMessage"}
        /\ Has(verdict'.message, "nonce")
        /\ verdict'.message.nonce \in RecordedNonces(verdict'.validator))
          => ~verdict'.valid]_vars

(* a recorded nonce came again with a fresh timestamp and a sequence number
   above the last accepted one, and the nonce layer alone rejected it *)
C10_Witness ==
    /\ verdict.validator = "validateSocketMessage"
    /\ ~verdict.valid
    /\ verdict.errors = <<"Duplicate nonce">>
    /\ Has(verdict.message, "timestamp")
    /\ Has(verdict.message, "sequence")
    /\ verdict.message.timestamp = clock
    /\ verdict.message.nonce \in usedNonces

ServerValidators == {"validateSocketMessage", "Http_validateReplayProtection"}

(* the sequence number the call was checked against *)
CheckedSequence(v) == GetOrZero(sequenceNumbers, v.conversationId)

FreshNonce(v) == Has(v.message, "nonce") /\ v.message.nonce \notin usedNonces

ValidSequence(v) == Has(v.message, "sequence") /\ v.message.sequence > CheckedSequence(v)

TimestampWindowOf(v) ==
    /\ Abs(clock - v.message.timestamp) > TIMESTAMP_WINDOW_MS => ~v.valid
    /\ (Abs(clock - v.message.timestamp) = TIMESTAMP_WINDOW_MS
          /\ FreshNonce(v) /\ ValidSequence(v)) => v.valid

(* C11: a server validator rejects a message whose timestamp is more than the
   5 minute window away from its clock, whatever its nonce and sequence number,
   and accepts a message exactly on the window boundary that carries a fresh
   nonce and a valid sequence number. *)
C11_TimestampWindow ==
    [][(verdict'.validator \in ServerValidators /\ Has(verdict'.message, "timestamp"))
          => TimestampWindowOf(verdict')]_vars

(* The express middleware taken alone keeps the window. *)
HttpTimestampWindow ==
    [][(verdict'.validator = "Http_validateReplayProtection"
          /\ Has(verdict'.message, "timestamp"))
          => TimestampWindowOf(verdict')]_vars

(* The socket validator keeps the window for every timestamp but 0. *)
SocketTimestampWindow ==
    [][(verdict'.validator = "validateSocketMessage"
          /\ TimestampTruthy(verdict'.message))
          => TimestampWindowOf(verdict')]_vars

(* the last-sequence map the named validator keeps *)
SequenceMap(validator) ==
    IF validator = "validateMessage" THEN demoServer.sequenceNumbers ELSE sequenceNumbers

SequenceMapAfter(validator) ==
    IF validator = "validateMessage" THEN demoServer'.sequenceNumbers ELSE sequenceNumbers'

SequenceValidators == {"validateSocketMessage", "validateMessage"}

(* C12: within one conversation accepted sequence numbers strictly increase,
   gaps allowed: a message with a sequence number is accepted only if the number
   is above the conversation's last-sequence value, which then becomes that
   number; a number at or below it is rejected; no last-sequence value ever
   decreases, and a call leaves the values of all other conversations alone. *)
C12_SequenceStrictlyIncreasing ==
    [][/\ \A c \in DOMAIN sequenceNumbers :
             /\ c \in DOMAIN sequenceNumbers'
             /\ sequenceNumbers'[c] >= sequenceNumbers[c]
       /\ \A c \in DOMAIN demoServer.sequenceNumbers :
             /\ c \in DOMAIN demoServer'.sequenceNumbers
             /\ demoServer'.sequenceNumbers[c] >= demoServer.sequenceNumbers[c]
       /\ (verdict'.validator \in SequenceValidators /\ Has(verdict'.message, "sequence"))
             => LET c == verdict'.conversationId
                    last == GetOrZero(SequenceMap(verdict'.validator), c)
                    after == SequenceMapAfter(verdict'.validator)
                IN  /\ verdict'.valid => /\ verdict'.message.sequence > last
                                         /\ after[c] = verdict'.message.sequence
                    /\ verdict'.message.sequence <= last => ~verdict'.valid
                    /\ \A d \in DOMAIN after \ {c} :
                          after[d] = GetOrZero(SequenceMap(verdict'.validator), d)]_vars

(* a number was accepted across a gap while another conversation stands higher *)
C12_Witness ==
    /\ verdict.validator = "validateSocketMessage"
    /\ verdict.valid
    /\ Has(verdict.message, "sequence")
    /\ verdict.message.sequence > 1
    /\ sequenceNumbers[verdict.conversationId] = verdict.message.sequence
    /\ \E d \in DOMAIN sequenceNumbers :
          /\ d # verdict.conversationId
          /\ sequenceNumbers[d] # verdict.message.sequence

(* C13: a message that lacks one of the replay fields nonce, timestamp and
   sequence is rejected by a server validator: a missing field never counts as
   a layer that passed. *)
C13_MissingFieldRejected ==
    [][(verdict'.validator \in ServerValidators
          /\ \E field \in ReplayFields : ~Has(verdict'.message, field))
          => ~verdict'.valid]_vars

(* The express middleware does reject a missing nonce and a missing timestamp. *)
HttpMissingNonceOrTimestampRejected ==
    [][(verdict'.validator = "Http_validateReplayProtection"
          /\ \E field \in {"nonce", "timestamp"} : ~Has(verdict'.message, field))
          => ~verdict'.valid]_vars

(* a conversation id whose two participants are in sorted order *)
Canonical(conversationId) == conversationId = SortedJoin(conversationId[1], conversationId[2])

(* C14: both server validators key the sequence counter by the canonical
   conversation id, so a message from A to B and a message from B to A are
   checked against, and update, the same last-sequence entry. *)
C14_CanonicalConversationId ==
    [][verdict'.validator \in ServerValidators
          => /\ Canonical(verdict'.conversationId)
             /\ \A c \in DOMAIN sequenceNumbers' : Canonical(c)]_vars

(* The socket validator taken alone uses the canonical id. *)
SocketCanonicalConversationId ==
    [][verdict'.validator = "validateSocketMessage"
          => Canonical(verdict'.conversationId)]_vars

(* a conversation key a client holds in one of its two caches *)
CachedConversationKeys(u, peerId) ==
    {conversationKeysRef[u][peerId], conversationKeyCache[u][SortedJoin(u, peerId)]}
       \ {Undefined}

(* C15: the conversation key is symmetric and deterministic: A's derivation
   from its private key and B's public key equals B's from its private key and
   A's public key, every key a client caches is that key, and every message
   encrypted under one derivation is surfaced at the peer decrypted to the
   original plaintext. *)
C15_ConversationKeySymmetric ==
    /\ \A a \in Users : \A b \in Users \ {a} :
          /\ deriveConversationKey(a, getUser(b).keyExchange)
                = deriveConversationKey(b, getUser(a).keyExchange)
          /\ \A k \in CachedConversationKeys(a, b) :
                k = deriveConversationKey(b, getUser(a).keyExchange)
    /\ \A u \in Users : \A m \in BagToSet(surfaced[u]) :
          /\ ~Has(m, "error")
          /\ m.plaintext = m.ciphertext.plaintext

(* each user has been shown a message of the other, decrypted *)
C15_Witness ==
    \A u \in Users : \E m \in BagToSet(surfaced[u]) :
        /\ m.from # u
        /\ Has(m, "decrypted")
        /\ m.plaintext \in Plaintexts

(* C16: after the store was cleared on logout or teardown, no session key
   material of that client remains in its session state store: no confirmed
   session key and no pending entry (which holds a derived session key or an
   ephemeral private key). *)
C16_ClearAllLeavesNothing ==
    outcome.op = "cleanup"
       => \A p \in Ids :
             /\ ~hasSessionKey(sessionKeys[outcome.user], p)
             /\ getPendingKex(pendingKeyExchanges[outcome.user], p) = Undefined

(* The confirmed session keys are cleared. *)
ClearAllClearsSessionKeys ==
    outcome.op = "cleanup" => \A p \in Ids : ~hasSessionKey(sessionKeys[outcome.user], p)

ExpiredPending(u, p) ==
    /\ getPendingKex(pendingKeyExchanges[u], p) # Undefined
    /\ clearExpiredPendingKex(pendingKeyExchanges[u])[p] = Undefined

(* C17: every pending entry older than 60 seconds is eventually removed from
   the pending store. *)
C17_ExpiredPendingEventuallyRemoved ==
    \A u \in Users, p \in Ids :
        ExpiredPending(u, p) ~> (getPendingKex(pendingKeyExchanges[u], p) = Undefined)

(* The ephemeral private keys client u stores for its handshake with p *)
StoredEphemeralKeys(u, p) ==
    {kp \in {ephemeralKeys[u][p],
             Prop(getPendingKex(pendingKeyExchanges[u], p), "ephemeralKeyPair")} :
        kp # Undefined}

HandshakeFailed ==
    /\ outcome.op \in {"kex_init", "kex_response", "kex_confirm"}
    /\ outcome.err \in {"timestamp", "signature", "hash"}

HandshakeCompleted ==
    /\ outcome.op \in {"kex_response", "kex_confirm"}
    /\ outcome.err = "none"

(* C18: once a handshake attempt has completed or failed at a client, that
   client stores no ephemeral private key of the attempt, neither in the
   pending store nor in the handler's ephemeral-key map. *)
C18_NoEphemeralKeyAfterAttempt ==
    (HandshakeFailed \/ HandshakeCompleted)
       => StoredEphemeralKeys(outcome.user, outcome.peer) = {}

(* A completed attempt leaves no ephemeral private key. *)
CompletedLeavesNoEphemeralKey ==
    HandshakeCompleted => StoredEphemeralKeys(outcome.user, outcome.peer) = {}

(* Client u holds a pending responder entry for the sender of kexConfirm, and
   the Confirm carries a valid timestamp and signature but not the confirmation
   hash of that entry. *)
ConfirmHashMismatch(u, kexConfirm) ==
    LET pendingState == getPendingKex(pendingKeyExchanges[u], kexConfirm.senderId)
    IN  /\ pendingState # Undefined
        /\ Prop(pendingState, "sessionKey") # Undefined
        /\ isTimestampValid(kexConfirm.timestamp)
        /\ verifySignature(pendingState.peerPublicKeys.signing,
                           payloadToVerify(kexConfirm), kexConfirm.signature)
        /\ ~verifyConfirmationHash(pendingState.sessionKey, pendingState.initiatorNonce,
                                   pendingState.responderNonce, kexConfirm.senderId, u,
                                   kexConfirm.confirmationHash)

(* C19: handling a Confirm with a valid signature and timestamp whose
   confirmation hash differs from the responder's own fails with the
   key-confirmation error, and afterwards the responder's session key store
   holds no key for that peer that was derived in this attempt. *)
C19_HashMismatchLeavesNoKey ==
    [][(outcome'.op = "kex_confirm" /\ ConfirmHashMismatch(outcome'.user, outcome'.msg))
          => /\ outcome'.err = "hash"
             /\ getSessionKey(sessionKeys'[outcome'.user], outcome'.peer)
                   # pendingKeyExchanges[outcome'.user][outcome'.peer].sessionKey]_vars

(* Such a Confirm always fails with the key-confirmation error. *)
HashMismatchFails ==
    [][(outcome'.op = "kex_confirm" /\ ConfirmHashMismatch(outcome'.user, outcome'.msg))
          => outcome'.err = "hash"]_vars

(* The Chat component stores no session key from such a Confirm. *)
ChatHashMismatchLeavesNoKey ==
    [][(impl = "chat" /\ outcome'.op = "kex_confirm"
          /\ ConfirmHashMismatch(outcome'.user, outcome'.msg))
          => getSessionKey(sessionKeys'[outcome'.user], outcome'.peer)
                # pendingKeyExchanges[outcome'.user][outcome'.peer].sessionKey]_vars

(* The confirmation hash responder u computes from its own pending entry for
   peer p: its pending key, both nonces and both ids *)
OwnConfirmationHash(u, p) ==
    LET pendingState == getPendingKex(pendingKeyExchanges[u], p)
    IN  createConfirmationHash(pendingState.sessionKey, pendingState.initiatorNonce,
                               pendingState.responderNonce, p, u)

(* In this step client u stores a session key for p in the responder role. *)
Promotes(u, p) ==
    /\ sessionKeys'[u][p] # sessionKeys[u][p]
    /\ sessionKeys'[u][p] # Undefined
    /\ sessionKeys'[u][p].role = "responder"

(* C20: the Chat component's responder promotes a key to a confirmed session
   key only when it handles a Confirm of that peer whose confirmation hash
   equals the hash computed from its own pending key, both nonces and both
   ids, and the promoted key is that pending key; a Confirm of a different
   handshake never promotes. *)
C20_PromotionOnlyOnOwnHash ==
    [][\A u \in Users : \A p \in Ids :
          (impl = "chat" /\ Promotes(u, p))
             => /\ outcome'.op = "kex_confirm"
                /\ outcome'.user = u
                /\ outcome'.peer = p
                /\ getPendingKex(pendingKeyExchanges[u], p) # Undefined
                /\ outcome'.msg.confirmationHash = OwnConfirmationHash(u, p)
                /\ sessionKeys'[u][p].key = pendingKeyExchanges[u][p].sessionKey]_vars

C20_Witness ==
    /\ impl = "chat"
    /\ outcome.op = "kex_confirm"
    /\ outcome.err = "none"
    /\ hasSessionKey(sessionKeys[outcome.user], outcome.peer)
    /\ sessionKeys[outcome.user][outcome.peer].role = "responder"
    /\ outcome.msg.confirmationHash
          = createConfirmationHash(sessionKeys[outcome.user][outcome.peer].key,
                sessionKeys[outcome.user][outcome.peer].initiatorNonce,
                sessionKeys[outcome.user][outcome.peer].responderNonce,
                outcome.peer, outcome.user)

(* The step is the server's handling of a 'message' event. *)
ServerHandled == verdict'.validator = "validateSocketMessage"

(* The recipient of the message the server has just judged *)
RecipientOf(v) ==
    IF v.conversationId[1] = v.user THEN v.conversationId[2] ELSE v.conversationId[1]

ClientStateUnchanged ==
    /\ UNCHANGED <<sessionKeys, pendingKeyExchanges, ephemeralKeys, status>>
    /\ UNCHANGED <<conversationKeysRef, conversationKeyCache, clientUsedNonces,
                   sequences, surfaced>>

(* C21: a message the server's replay validator rejects is neither relayed nor
   stored, only its sender is notified, and no session key, conversation key
   or client state is removed or changed; an accepted message is relayed to
   its recipient exactly once (and stored once), nobody being notified of an
   error. *)
C21_RejectionFatalForMessageOnly ==
    [][ServerHandled =>
          /\ ClientStateUnchanged
          /\ ~verdict'.valid =>
                /\ toClient' = toClient
                /\ stored' = stored
                /\ usedNonces' = usedNonces
                /\ sequenceNumbers' = sequenceNumbers
                /\ messageErrors' = messageErrors (+)
                      SetToBag({[to |-> verdict'.user, details |-> verdict'.errors]})
          /\ verdict'.valid =>
                /\ messageErrors' = messageErrors
                /\ \E r \in BagToSet(toClient') :
                      /\ toClient' = toClient (+) SetToBag({r})
                      /\ r.from = verdict'.user
                      /\ r.to = RecipientOf(verdict')
                      /\ Pick(r, ReplayFields) = verdict'.message
                /\ \E d \in BagToSet(stored') :
                      /\ stored' = stored (+) SetToBag({d})
                      /\ d.sender = verdict'.user
                      /\ d.recipient = RecipientOf(verdict')]_vars

(* a replayed message was rejected while both users hold the conversation key
   and a message has been relayed *)
C21_Witness ==
    /\ verdict.validator = "validateSocketMessage"
    /\ ~verdict.valid
    /\ messageErrors # EmptyBag
    /\ toClient # EmptyBag
    /\ \E u \in Users : \E p \in Users \ {u} : CachedConversationKeys(u, p) # {}

(* The runs of the server's handler for the event data of sender from, and
   those among them whose validation accepted the message *)
Deliveries(from, data) ==
    [t \in {t \in BagToSet(serverTasks) : t.from = from /\ t.data = data}
        |-> serverTasks[t]]

AcceptedDeliveries(from, data) ==
    [t \in {t \in BagToSet(serverTasks) : t.from = from /\ t.data = data /\ t.valid}
        |-> serverTasks[t]]

CarriesReplayFields(data) ==
    /\ NonceTruthy(data)
    /\ TimestampTruthy(data)
    /\ Has(data, "sequence")

DuplicateNonceError == "Duplicate nonce"

(* C22: when the server handles two deliveries of the same message (identical
   nonce, timestamp and sequence) concurrently, exactly one of them is
   accepted, however the two handlers interleave; none is accepted only when
   the message is rejected on its own account (its sequence number is behind
   the conversation's), never as a duplicate of the other. *)
C22_ExactlyOneDeliveryAccepted ==
    \A t \in BagToSet(serverTasks) :
        (CarriesReplayFields(t.data) /\ BagCardinality(Deliveries(t.from, t.data)) >= 2)
           => \/ BagCardinality(AcceptedDeliveries(t.from, t.data)) = 1
              \/ /\ BagCardinality(AcceptedDeliveries(t.from, t.data)) = 0
                 /\ \A d \in BagToSet(Deliveries(t.from, t.data)) :
                       \A i \in 1..Len(d.errors) : d.errors[i] # DuplicateNonceError

(* the second delivery was validated while the first handler was suspended
   before relaying; one was accepted, the other rejected as a replay *)
C22_Witness ==
    \E t \in BagToSet(serverTasks) : \E d \in BagToSet(serverTasks) :
        /\ t.from = d.from
        /\ t.data = d.data
        /\ t.valid
        /\ t.pc = "logging"
        /\ ~d.valid
        /\ d.errors[1] = DuplicateNonceError

(* The keys client u holds that no Confirm has confirmed: those of its pending
   handshake entries *)
UnconfirmedKeys(u) ==
    {Prop(getPendingKex(pendingKeyExchanges[u], p), "sessionKey") : p \in Ids} \ {Undefined}

(* The keys client u may encrypt for or decrypt from peer p with *)
UsableKeys(u, p) ==
    {deriveConversationKey(u, getUser(p).keyExchange)}
       \cup {getSessionKey(sessionKeys[u], p) :
                q \in {q \in {p} : hasSessionKey(sessionKeys[u], q)
                                     /\ getPendingKex(pendingKeyExchanges[u], q) = Undefined}}

(* C23: every key the message send and receive paths use is a confirmed
   session key or the conversation key, never the key of a pending handshake
   entry: each message a client emits is encrypted under such a key, and so is
   each key the receive path decrypts with (and caches). *)
C23_NoUnconfirmedKeyUsed ==
    [][/\ \A m \in toServer' \ toServer :
             /\ m.data.ciphertext.key \in UsableKeys(m.from, m.data.to)
             /\ m.data.ciphertext.key \notin UnconfirmedKeys(m.from)
       /\ \A u \in Users : \A p \in Users \ {u} :
             \A k \in CachedConversationKeys(u, p)' :
                 /\ k \in UsableKeys(u, p)
                 /\ k \notin UnconfirmedKeys(u)]_vars

(* a message was sent and decrypted while the sender held the unconfirmed key
   of a pending handshake with the recipient *)
C23_Witness ==
    \E u \in Users : \E p \in Users \ {u} :
        /\ Prop(getPendingKex(pendingKeyExchanges[u], p), "sessionKey") # Undefined
        /\ \E m \in BagToSet(surfaced[p]) : m.from = u /\ Has(m, "decrypted")
        /\ \E m \in toServer : m.from = u /\ m.data.to = p

(* The Init and Response messages in flight *)
KeyCarrying(messages) == {m \in messages : Has(m, "ephemeralPublicKey")}

(* C24: every handshake attempt uses a freshly generated ephemeral key pair:
   the Init or Response a party sends carries the public key of the pair
   generated in that very handler run, which no earlier attempt has used, so
   no two Init or Response messages of one party carry the same ephemeral
   public key. *)
C24_FreshEphemeralKeyPair ==
    [][/\ \A m \in KeyCarrying(net' \ net) :
             /\ m.ephemeralPublicKey = generateEphemeralKeyPair(nextEph).publicKey
             /\ nextEph' = nextEph + 1
             /\ \A earlier \in 1..(nextEph - 1) :
                   m.ephemeralPublicKey # generateEphemeralKeyPair(earlier).publicKey
       /\ \A m1 \in KeyCarrying(net') : \A m2 \in KeyCarrying(net') :
             (m1 # m2 /\ m1.senderId = m2.senderId)
                => m1.ephemeralPublicKey # m2.ephemeralPublicKey]_vars

(* an Init of a party has failed at its peer, and a later Init of the same
   party, with another ephemeral public key, is in flight to that peer *)
C24_Witness ==
    \E m \in KeyCarrying(net) :
        /\ m.type = "KEX_INIT"
        /\ m.receiverId \in Users
        /\ status[m.receiverId][m.senderId] = "error"
        /\ outcome.op = "initiate"
        /\ outcome.user = m.senderId
        /\ m.ephemeralPublicKey # generateEphemeralKeyPair(1).publicKey

(* The signature of message m was not made with the long-term signing key the
   identity directory holds for m's claimed sender. *)
SignedWithOtherKey(m) ==
    m.signature.signer # SigningPrivateKey(m.senderId)[2]

KexHandlers == {"kex_init", "kex_response", "kex_confirm"}

(* C25: the signature of a handshake message is verified with the long-term
   signing key registered in the identity directory for the claimed senderId,
   never with a key the message carries: each of the three handlers rejects a
   message signed with any other key (with the signature error when its
   timestamp is inside the window and, for a Response or Confirm, a pending
   entry exists), sends nothing and stores nothing. *)
C25_VerifiedWithDirectoryKey ==
    [][(outcome'.op \in KexHandlers /\ SignedWithOtherKey(outcome'.msg))
          => /\ outcome'.err \in {"signature", "timestamp", "nopending"}
             /\ (Abs(clock' - outcome'.msg.timestamp) <= KEX_TIMESTAMP_WINDOW_MS
                   /\ (outcome'.op = "kex_init"
                         \/ pendingKeyExchanges[outcome'.user][outcome'.peer] # Undefined))
                   => outcome'.err = "signature"
             /\ outcome'.sent = Undefined
             /\ sessionKeys' = sessionKeys
             /\ pendingKeyExchanges' = pendingKeyExchanges]_vars

(* a Confirm the adversary signed in the initiator's name was rejected by the
   responder for its signature *)
C25_Witness ==
    /\ outcome.op = "kex_confirm"
    /\ SignedWithOtherKey(outcome.msg)
    /\ ~IsTampered(outcome.msg)
    /\ outcome.err = "signature"
    /\ pendingKeyExchanges[outcome.user][outcome.peer] # Undefined

KeyLookups == {"getOrCreateConversationKey", "getConversationKey"}

(* C26: whatever calls came before, getOrCreateConversationKey and the Chat
   component's getConversationKey return the key a fresh deriveConversationKey
   with the caller's user id and the peer's public key returns, and nothing
   else is ever cached. *)
C26_CachedKeyIsDerivedKey ==
    /\ outcome.op \in KeyLookups
          => outcome.msg = deriveConversationKey(outcome.user,
                                                 getUser(outcome.peer).keyExchange)
    /\ \A u \in Users : \A p \in Ids \ {u} :
          /\ conversationKeysRef[u][p]
                \in {Undefined, deriveConversationKey(u, getUser(p).keyExchange)}
          /\ conversationKeyCache[u][SortedJoin(u, p)]
                \in {Undefined, deriveConversationKey(u, getUser(p).keyExchange)}

(* a lookup answered from the cache while the client also caches the key of
   another conversation *)
C26_Witness ==
    /\ outcome.op = "getOrCreateConversationKey"
    /\ \A p \in Ids \ {outcome.user} :
          conversationKeyCache[outcome.user][SortedJoin(outcome.user, p)] # Undefined
    /\ \E m \in toServer : m.from = outcome.user /\ ~Has(m.data, "nonce")

(* Both users hold a session key for each other, both statuses are complete
   and neither has a pending entry for the other. *)
Established ==
    \A u \in Users : \A p \in Users \ {u} :
        /\ hasSessionKey(sessionKeys[u], p)
        /\ status[u][p] = "complete"
        /\ getPendingKex(pendingKeyExchanges[u], p) = Undefined

AttemptFailed == \E u \in Users : \E p \in Users \ {u} : status[u][p] = "error"

(* C27: with valid keys, no adversary and every message delivered once, a
   single initiate towards a peer without a session eventually ends either
   with both parties holding a session key for each other, both statuses
   complete and no pending entry on either side, or in an error status; and it
   ends in an error status only when a message was handled outside the
   timestamp window. *)
C27_InitiateEventuallyEstablishes ==
    /\ (outcome.op = "initiate") ~> (Established \/ AttemptFailed)
    /\ [][(outcome'.op \in KexHandlers /\ outcome'.err # "none")
             => (outcome'.err = "timestamp"
                   /\ Abs(clock' - outcome'.msg.timestamp) > KEX_TIMESTAMP_WINDOW_MS)]_vars
    /\ [](AttemptFailed => ~Established)

C27_Witness ==
    /\ Established
    /\ outcome.op = "kex_confirm"
    /\ clock > Epoch

(* The Response answers another Init than the one pending at u for its sender:
   it echoes a nonce that is not the pending entry's. *)
AnswersOtherInit(u, kexResponse) ==
    LET pendingState == getPendingKex(pendingKeyExchanges[u], kexResponse.senderId)
    IN  /\ pendingState # Undefined
        /\ "myNonce" \in DOMAIN pendingState
        /\ kexResponse.initiatorNonce # pendingState.myNonce

(* C28: the initiator promotes a session key from a Response only if the
   Response's initiatorNonce is the nonce of the Init pending for that sender;
   a validly signed Response answering a different Init is rejected and
   stores no session key. *)
C28_ResponseBoundToPendingInit ==
    [][(outcome'.op = "kex_response" /\ AnswersOtherInit(outcome'.user, outcome'.msg))
          => /\ outcome'.err # "none"
             /\ outcome'.sent = Undefined
             /\ sessionKeys' = sessionKeys]_vars

AddressedElsewhere(u, kexInit) ==
    /\ kexInit.type = "KEX_INIT"
    /\ kexInit.receiverId # u
    /\ verifySignature(getUser(kexInit.senderId).signing, payloadToVerify(kexInit),
                       kexInit.signature)

(* C29: a party acts as responder only for an Init whose signed receiverId is
   its own id: when handleKexInit at u is given an Init validly signed by its
   sender and addressed to another user, the handler fails, sends no Response,
   and leaves u's pending entries and session keys as they were. *)
C29_ResponderOnlyForOwnInit ==
    [][(outcome'.op = "kex_init" /\ AddressedElsewhere(outcome'.user, outcome'.msg))
          => /\ outcome'.err # "none"
             /\ outcome'.sent = Undefined
             /\ pendingKeyExchanges'[outcome'.user] = pendingKeyExchanges[outcome'.user]
             /\ sessionKeys'[outcome'.user] = sessionKeys[outcome'.user]]_vars

SameSessionKey ==
    \A u \in Users : \A p \in Users \ {u} :
        /\ hasSessionKey(sessionKeys[u], p)
        /\ hasSessionKey(sessionKeys[p], u)
        /\ getSessionKey(sessionKeys[u], p) = getSessionKey(sessionKeys[p], u)

NoPendingEntry ==
    \A u \in Users : \A p \in Users \ {u} :
        getPendingKex(pendingKeyExchanges[u], p) = Undefined

(* C30: when both peers have called initiate towards each other before either
   received the other's Init, and every message has been delivered, both hold
   the same session key for each other and neither has a pending entry. *)
C30_CrossedInitiatesConverge ==
    (BothInitiated /\ net = {}) => (SameSessionKey /\ NoPendingEntry)

InsideWindow(message) ==
    /\ Has(message, "timestamp")
    /\ Abs(clock - message.timestamp) <= TIMESTAMP_WINDOW_MS

(* C31: every message stamped by addReplayProtection of an honest participant
   and delivered once to the server inside the window is accepted by
   validateSocketMessage, whichever way the messages of both participants
   interleave and also after a client started again. *)
C31_HonestMessageAccepted ==
    [][(verdict'.validator = "validateSocketMessage" /\ InsideWindow(verdict'.message))
          => verdict'.valid]_vars

AcceptedBefore(v) ==
    \E r \in BagToSet(toClient) :
        /\ r.from = v.user
        /\ r.to = RecipientOf(v)
        /\ Pick(r, ReplayFields) = v.message

(* C32: once validateSocketMessage has accepted a message, every later call
   with the identical nonce, timestamp and sequence for the same conversation
   is rejected while the validator's state is kept, also after the nonce's
   timer has fired, for a timestamp ahead of the server clock, and for a
   message without sequence. *)
C32_AcceptedMessageNeverAcceptedAgain ==
    [][(/\ verdict'.validator = "validateSocketMessage"
        /\ Has(verdict'.message, "nonce")
        /\ AcceptedBefore(verdict'))
          => ~verdict'.valid]_vars

ValidatorStateEmpty == usedNonces = {} /\ DOMAIN sequenceNumbers = {}

ReplayAfterLoss(v) ==
    /\ v.validator = "validateSocketMessage"
    /\ ValidatorStateEmpty
    /\ AcceptedBefore(v)
    /\ Has(v.message, "timestamp")

(* C33: after the validator's state is lost, a replay of a previously accepted
   message is rejected if and only if its timestamp lies outside the window:
   the nonce and the sequence layer no longer reject it, the timestamp layer
   still does. *)
C33_AfterLossOnlyTimestampRejects ==
    [][ReplayAfterLoss(verdict')
          => (~verdict'.valid <=> ~InsideWindow(verdict'.message))]_vars

(* For every timestamp but 0 the replay after a loss is judged by the window. *)
AfterLossTruthyTimestampDecides ==
    [][(ReplayAfterLoss(verdict') /\ TimestampTruthy(verdict'.message))
          => (~verdict'.valid <=> ~InsideWindow(verdict'.message))]_vars

(* the seen-nonce set of the validator that gave verdict v, before and after *)
SeenNonces(v) ==
    IF v.validator = "validateReplayProtection" THEN clientUsedNonces[v.user]
    ELSE usedNonces

SeenNoncesAfter(v) ==
    IF v.validator = "validateReplayProtection" THEN clientUsedNonces'[v.user]
    ELSE usedNonces'

NonceValidators == {"validateSocketMessage", "validateReplayProtection"}

RejectedNonceNotRecorded ==
    (verdict'.validator \in NonceValidators /\ ~verdict'.valid
        /\ Has(verdict'.message, "nonce"))
      => (verdict'.message.nonce \in SeenNoncesAfter(verdict')
            => verdict'.message.nonce \in SeenNonces(verdict'))

AcceptedNonceRecorded ==
    (verdict'.validator \in NonceValidators /\ verdict'.valid
        /\ NonceTruthy(verdict'.message))
      => verdict'.message.nonce \in SeenNoncesAfter(verdict')

(* a timer that removes a nonce leaves no timer of a later acceptance of that
   nonce pending *)
EvictedAfterFullWindow ==
    nonceTimers' # nonceTimers
      => \A n \in usedNonces \ usedNonces' :
            ~\E t \in BagToSet(nonceTimers') : t.nonce = n /\ t.due > clock

(* C34: an accepted nonce is recorded and stays in the seen-nonce set for the
   full window after its acceptance, a timer evicts it once the window has
   elapsed, and the nonce of a rejected message is not recorded. *)
C34_SeenNoncesAreAcceptedWithinWindow ==
    [][RejectedNonceNotRecorded /\ AcceptedNonceRecorded /\ EvictedAfterFullWindow]_vars

(* The server's socket validator records no nonce of a rejected message. *)
ServerRejectedNonceNotRecorded ==
    [][verdict'.validator = "validateSocketMessage" => RejectedNonceNotRecorded]_vars

(* Eviction a full window after the acceptance, taken alone. *)
ServerEvictedAfterFullWindow == [][EvictedAfterFullWindow]_vars

TimestampOutside(m) ==
    \/ ~Has(m, "timestamp")
    \/ Abs(clock - m.timestamp) > KEX_TIMESTAMP_WINDOW_MS

(* failures of a handler that precede its timestamp check *)
BeforeTimestampCheck(op) ==
    IF op = "kex_init" THEN {}
    ELSE IF op = "kex_response" THEN {"nopending", "type"}
    ELSE {"nopending"}

(* C35: each handshake handler accepts a message only if its timestamp is a
   number at most 30 000 ms away from the local clock, boundary included,
   past or future; it rejects a message outside the window, or without a
   numeric timestamp, for its timestamp before it verifies the signature, and
   rejects no message inside the window for its timestamp. *)
C35_KexTimestampWindow ==
    [][outcome'.op \in KexHandlers
          => /\ TimestampOutside(outcome'.msg)
                  => outcome'.err \in {"timestamp"} \cup BeforeTimestampCheck(outcome'.op)
             /\ outcome'.err = "timestamp" => TimestampOutside(outcome'.msg)]_vars

(* a message stamped exactly 30 000 ms ahead of the receiver's clock, signed
   by its sender, was accepted *)
C35_Witness ==
    /\ outcome.op \in KexHandlers
    /\ outcome.err = "none"
    /\ Has(outcome.msg, "timestamp")
    /\ outcome.msg.timestamp - clock = KEX_TIMESTAMP_WINDOW_MS

(* C36: initiate for a peer whose session key is stored runs no exchange: it
   sends no Init, generates no ephemeral key pair, leaves the pending store and
   the session key store as they were and sets the status complete. *)
C36_InitiateWithSessionKeyIsNoOp ==
    [][(outcome'.op = "initiate"
          /\ getSessionKey(sessionKeys[outcome'.user], outcome'.peer) # Undefined)
          => /\ outcome'.sent = Undefined
             /\ net' = net
             /\ nextEph' = nextEph
             /\ ephemeralKeys' = ephemeralKeys
             /\ pendingKeyExchanges' = pendingKeyExchanges
             /\ sessionKeys' = sessionKeys
             /\ status'[outcome'.user][outcome'.peer] = "complete"]_vars

(* a user who holds a session key for the peer called initiate again *)
C36_Witness ==
    /\ outcome.op = "initiate"
    /\ outcome.sent = Undefined
    /\ getSessionKey(sessionKeys[outcome.user], outcome.peer) # Undefined
    /\ status[outcome.user][outcome.peer] = "complete"

CompletingHandlers == {"kex_response", "kex_confirm"}

RoleOf(op) == IF op = "kex_response" THEN "initiator" ELSE "responder"

(* C37: after a handler completes successfully (the initiator's after a valid
   Response, the responder's after a valid Confirm) the peer's pending entry
   is absent and the peer's session key is present, stored with the role of
   the party in that handshake, which is the role the pending entry had. *)
C37_CompletionReplacesPendingBySessionKey ==
    [][(outcome'.op \in CompletingHandlers /\ outcome'.err = "none")
          => LET u == outcome'.user
                 p == outcome'.peer
             IN  /\ getPendingKex(pendingKeyExchanges[u], p) # Undefined
                 /\ getPendingKex(pendingKeyExchanges'[u], p) = Undefined
                 /\ sessionKeys'[u][p] # Undefined
                 /\ sessionKeys'[u][p].role = RoleOf(outcome'.op)
                 /\ Has(pendingKeyExchanges[u][p], "role")
                       => pendingKeyExchanges[u][p].role = sessionKeys'[u][p].role]_vars

(* the Chat responder completed on a valid Confirm *)
C37_Witness ==
    /\ impl = "chat"
    /\ outcome.op = "kex_confirm"
    /\ outcome.err = "none"
    /\ getPendingKex(pendingKeyExchanges[outcome.user], outcome.peer) = Undefined
    /\ sessionKeys[outcome.user][outcome.peer] # Undefined
    /\ sessionKeys[outcome.user][outcome.peer].role = "responder"

OtherPendingUnchanged(u, p) ==
    \A v \in Users : \A q \in Ids :
        <<v, q>> # <<u, p>> => pendingKeyExchanges'[v][q] = pendingKeyExchanges[v][q]

(* C38: removePendingKex never fails, with or without an entry for the peer;
   it leaves no entry for that peer, and leaves every other pending entry and
   every session key as they were; a Response or Confirm handled while the
   peer has no pending entry fails, sends nothing and stores no session key. *)
C38_RemovePendingIsSafe ==
    [][/\ outcome'.op = "removePendingKex"
            => /\ outcome'.err = "none"
               /\ getPendingKex(pendingKeyExchanges'[outcome'.user], outcome'.peer) = Undefined
               /\ OtherPendingUnchanged(outcome'.user, outcome'.peer)
               /\ sessionKeys' = sessionKeys
       /\ (outcome'.op \in CompletingHandlers
              /\ getPendingKex(pendingKeyExchanges[outcome'.user], outcome'.peer) = Undefined)
            => /\ outcome'.err # "none"
               /\ outcome'.sent = Undefined
               /\ sessionKeys' = sessionKeys]_vars

(* the initiator abandoned the exchange with one peer, kept the one with the
   other, and the Response of the abandoned peer then failed *)
C38_Witness ==
    /\ outcome.op = "kex_response"
    /\ outcome.err = "nopending"
    /\ sessionKeys[outcome.user][outcome.peer] = Undefined
    /\ getPendingKex(pendingKeyExchanges[outcome.user], Mallory) # Undefined

PendingAge(entry) == clock - entry.createdAt

(* C39: a call of clearExpiredPendingKex removes the caller's pending entries
   older than 60 000 ms, and only those: every entry aged 60 000 ms or less,
   every pending entry of the other client and every session key stay as they
   were. *)
C39_SweepRemovesExactlyTheExpired ==
    [][outcome'.op = "clearExpiredPendingKex"
          => /\ \A p \in Ids :
                    LET entry == getPendingKex(pendingKeyExchanges[outcome'.user], p)
                        after == getPendingKex(pendingKeyExchanges'[outcome'.user], p)
                    IN  IF entry # Undefined /\ PendingAge(entry) > expireTime
                        THEN after = Undefined
                        ELSE after = entry
             /\ \A v \in Users \ {outcome'.user} :
                    pendingKeyExchanges'[v] = pendingKeyExchanges[v]
             /\ sessionKeys' = sessionKeys]_vars

(* a sweep removed the entry of an exchange that was started and never
   answered, and kept an entry aged exactly 60 000 ms *)
C39_Witness ==
    /\ outcome.op = "clearExpiredPendingKex"
    /\ \E p, q \in Ids :
          /\ status[outcome.user][p] \in {"exchanging", "pending"}
          /\ getPendingKex(pendingKeyExchanges[outcome.user], p) = Undefined
          /\ getPendingKex(pendingKeyExchanges[outcome.user], q) # Undefined
          /\ PendingAge(getPendingKex(pendingKeyExchanges[outcome.user], q)) = expireTime

(* what the message callback of client u received in this step *)
Surfaced(u) ==
    CHOOSE d \in BagToSet(surfaced'[u]) :
        CopiesIn(d, surfaced'[u]) > CopiesIn(d, surfaced[u])

Readable(u, d) ==
    CanDecrypt(deriveConversationKey(u, getUser(d.from).keyExchange), d.ciphertext, d.iv)

SurfacedUndecryptable(u) ==
    LET d == Surfaced(u)
    IN  Has(d, "error") /\ ~Has(d, "decrypted") /\ d.plaintext = "[Decryption failed]"

SurfacedDecrypted(u) ==
    LET d == Surfaced(u)
    IN  Has(d, "decrypted") /\ ~Has(d, "error") /\ d.plaintext = d.ciphertext.plaintext

(* C40: an inbound message that cannot be decrypted is handed to the callback
   once, marked as an error with the text '[Decryption failed]'; the step
   leaves every cached conversation key and every session key in place, and
   every message that is readable under the conversation key, also one handled
   after a failure, is handed to the callback decrypted. *)
C40_DecryptionFailureIsIsolated ==
    [][\A u \in Users :
          surfaced'[u] # surfaced[u]
             => /\ surfaced[u] \sqsubseteq surfaced'[u]
                /\ BagCardinality(surfaced'[u]) = BagCardinality(surfaced[u]) + 1
                /\ IF Readable(u, Surfaced(u))
                   THEN SurfacedDecrypted(u)
                   ELSE SurfacedUndecryptable(u)
                /\ \A v \in Users : \A c \in DOMAIN conversationKeyCache[v] :
                       conversationKeyCache[v][c] # Undefined
                          => conversationKeyCache'[v][c] = conversationKeyCache[v][c]
                /\ conversationKeysRef' = conversationKeysRef
                /\ sessionKeys' = sessionKeys
                /\ pendingKeyExchanges' = pendingKeyExchanges
                /\ \A v \in Users \ {u} : surfaced'[v] = surfaced[v]]_vars

(* a client that holds a session key and the cached conversation key was shown
   one undecryptable message and one decrypted message of the same peer *)
C40_Witness ==
    \E u \in Users : \E e, d \in BagToSet(surfaced[u]) :
        /\ Has(e, "error") /\ e.plaintext = "[Decryption failed]"
        /\ Has(d, "decrypted") /\ d.from = e.from
        /\ conversationKeyCache[u][SortedJoin(u, e.from)]
              = deriveConversationKey(u, getUser(e.from).keyExchange)
        /\ hasSessionKey(sessionKeys[u], e.from)

=============================================================================
